---- MODULE Spec2Model ----
(***************************************************************************)
(* Morning Byte: the multi-source fetch pipeline.                          *)
(*                                                                         *)
(*   - the five source adapters (sources/*.py), as pure operators over the *)
(*     HTTP responses they receive, and as a state machine (SpecAdapter)   *)
(*     in which the sub-requests of asyncio.gather complete in any order;  *)
(*   - the fetch orchestrator fetch_all_sources (main.py), Spec;           *)
(*   - the digest assembler create_digest_from_articles (epub/generator.py)*)
(*     SpecDigest.                                                         *)
(***************************************************************************)
EXTENDS Integers, Sequences, FiniteSets, TLC

VARIABLES
    \* ---- fetch_all_sources (main.py:27-53)
    config,              \* config.sources in dict order: sequence of [name, enabled, cfg]
    o_pc,                \* "loop" | "returned" | "crashed"
    est,                 \* per config entry, where its loop body stands:
                         \*   "todo" | "open" | "fetching" | "fetched" | "failed" | "done"
    articles_by_source,  \* the ordered dict: sequence of [key, articles]
    warnings,            \* the source names console.print warned about, in order
    client,              \* per config entry, its adapter's HTTP client:
                         \*   "none" | "open" | "closed" | "close_failed"
    closes,              \* per config entry: number of client.aclose() calls
    inflight,            \* the config entries whose source.fetch() is awaited
    returned,            \* history: per config entry, what source.fetch() did
    \* ---- one adapter's fetch() (sources/*.py)
    a_name,              \* which adapter runs
    a_cfg,               \* its SourceConfig
    a_pc,                \* "start" | "gather" | "done"
    a_tasks,             \* the coroutines handed to asyncio.gather: [arg, st, resp, result]
    a_out,               \* what fetch() did: [raised, articles]
    a_first,             \* history: the response to the first or only request
    \* ---- create_digest_from_articles (epub/generator.py:228-265)
    d_groups,            \* the input mapping articles_by_source
    d_pc,                \* "priority" | "remaining" | "done"
    d_i,                 \* loop position
    sections,            \* the list `sections`
    \* ---- fetch_articles_content / enrich_articles_with_content (content.py)
    c_articles,          \* the articles handed to both functions
    c_max,               \* max_concurrent
    c_sem,               \* the semaphore's value
    c_st,                \* per article, its fetch_with_semaphore coroutine:
                         \*   "none" | "waiting" | "acquired" | "requesting" | "done"
    c_results,           \* per article, the ContentResult its coroutine returned
    c_requested,         \* history: the coroutines that issued client.get(url)
    c_map,               \* dict(results): sequence of [url, result]
    c_pc,                \* "gather" | "returned" | "enriched"
    c_out,               \* what enrich_articles_with_content returned
    \* ---- the generate command (main.py:56-136)
    g_pc,                \* "fetch" | "fetched" | "digest" | "render" | "send" | "exit"
    g_opts,              \* the options read so far: [preview, send, output]
    g_calls,             \* the stages invoked, in order
    g_exit,              \* exit status once the command has ended, else None
    \* ---- Article.domain (models.py:27-36)
    u_url,               \* the article's url
    u_pc,                \* "start" | "derived" | "again"
    u_domain,            \* what the property returned
    u_again,             \* the same stripping applied to what it returned
    \* ---- LocalDelivery.save and cleanup_old (delivery/local.py, main.py:106-120)
    r_files,             \* the names of the files in output_dir
    r_now,               \* datetime.now(): [day, tod], tod 0 at midnight, 1 later
    r_keep,              \* config.delivery.keep_days
    r_pc,                \* "save" | "cleanup" | "done"
    r_saved,             \* the name save() wrote, "" before
    r_deleted,           \* what cleanup_old returned: the names it unlinked
    r_before             \* history: the directory before save()

orch_vars == <<config, o_pc, est, articles_by_source, warnings, client, closes,
               inflight, returned>>
adapter_vars == <<a_name, a_cfg, a_pc, a_tasks, a_out, a_first>>
digest_vars == <<d_groups, d_pc, d_i, sections>>
content_vars == <<c_articles, c_max, c_sem, c_st, c_results, c_requested, c_map,
                  c_pc, c_out>>
generate_vars == <<g_pc, g_opts, g_calls, g_exit>>
domain_vars == <<u_url, u_pc, u_domain, u_again>>
retention_vars == <<r_files, r_now, r_keep, r_pc, r_saved, r_deleted, r_before>>
vars == <<orch_vars, adapter_vars, digest_vars, content_vars, generate_vars,
          domain_vars, retention_vars>>

(***************************************************************************)
(* Bounds of the model.                                                    *)
(***************************************************************************)
MaxItems == 2       \* SourceConfig.max_items ranges over 0..MaxItems
MaxSub == 2         \* at most MaxSub subreddits / tags / feeds in a SourceConfig
MaxSources == 2     \* at most MaxSources entries in config.sources
MaxGroups == 4      \* at most MaxGroups groups in the assembler's input mapping

(***************************************************************************)
(* Python values.                                                          *)
(***************************************************************************)
\* JSON null / Python None where a string is expected.
None == "<None>"

\* Python truthiness of a str-or-None value.
Truthy(s) == s # "" /\ s # None

\* dict.get(key, default)
Get(item, key, default) == IF key \in DOMAIN item THEN item[key] ELSE default

\* list[:n] for n >= 0
Take(s, n) == SubSeq(s, 1, IF n < Len(s) THEN n ELSE Len(s))

Min(a, b) == IF a < b THEN a ELSE b

Range(s) == {s[i] : i \in 1..Len(s)}

RECURSIVE Concat(_)
Concat(ss) == IF ss = <<>> THEN <<>> ELSE Head(ss) \o Concat(Tail(ss))

\* str.startswith
StartsWith(s, p) == Len(s) >= Len(p) /\ SubSeq(s, 1, Len(p)) = p

\* str.endswith
EndsWith(s, p) == Len(s) >= Len(p) /\ SubSeq(s, Len(s) - Len(p) + 1, Len(s)) = p

(***************************************************************************)
(* datetime values: an instant and whether the value is timezone-aware.    *)
(* Python refuses to order a naive and an aware datetime (TypeError).      *)
(***************************************************************************)
NoneDate == [none |-> TRUE]
Naive(t) == [t |-> t, aware |-> FALSE]
Aware(t) == [t |-> t, aware |-> TRUE]

\* datetime.now(): a naive datetime; the run happens after every instant
\* the payloads mention (1 and 2).
Now == Naive(3)

\* A date string of a payload is its dateutil parse: [bad |-> TRUE] when
\* date_parser.parse raises, else the datetime it denotes.
BadDateString == [bad |-> TRUE]
ParseRaises(d) == "bad" \in DOMAIN d

(***************************************************************************)
(* models.py: Article.  published_at None becomes datetime.now().          *)
(***************************************************************************)
Article(title, url, source, score, comments_url, published_at, tags) ==
    [title |-> title, url |-> url, source |-> source, score |-> score,
     comments_url |-> comments_url,
     published_at |-> IF published_at = NoneDate THEN Now ELSE published_at,
     tags |-> tags]

(***************************************************************************)
(* list.sort(key=..., reverse=True) and sorted(..., reverse=True): stable, *)
(* so equal keys keep their original relative order.                       *)
(***************************************************************************)
StableSortDesc(s, keys) ==
    LET n == Len(s)
        rank(i) == Cardinality({j \in 1..n :
                        keys[j] > keys[i] \/ (keys[j] = keys[i] /\ j < i)}) + 1
    IN  [p \in 1..n |-> s[CHOOSE i \in 1..n : rank(i) = p]]

\* key=lambda a: a.score, for each element of the list
Scores(s) == [i \in 1..Len(s) |-> s[i].score]

(***************************************************************************)
(* HTTP responses.  client.get raises on a timeout or a connection         *)
(* failure, raise_for_status on an error status, response.json() on a body *)
(* that is not JSON: all are exceptions at the call site.                  *)
(***************************************************************************)
FailKinds == {"http_error", "timeout", "connect_error", "malformed"}
Failure(k) == [kind |-> k]
Ok(body) == [kind |-> "ok", body |-> body]
Failed(resp) == resp.kind # "ok"

\* What a coroutine handed to gather(..., return_exceptions=True) yields.
ListResult(l) == [tag |-> "list", val |-> l]
ArticleResult(a) == [tag |-> "article", val |-> a]
NoneResult == [tag |-> "none"]
ExcResult == [tag |-> "exception"]

(***************************************************************************)
(* config.py: SourceConfig.                                                *)
(***************************************************************************)
SourceConfig(max_items, subreddits, feeds, tags) ==
    [max_items |-> max_items, subreddits |-> subreddits, feeds |-> feeds,
     tags |-> tags]

\* What a call of fetch() does: it returns a list or an exception escapes.
Returns(articles) == [raised |-> FALSE, articles |-> articles]
Raises == [raised |-> TRUE, articles |-> <<>>]

\* The results of gather that are lists, concatenated in task order
\* (isinstance(result, list) / articles.extend(result)).
ExtendLists(results) ==
    Concat([i \in 1..Len(results) |->
              IF results[i].tag = "list" THEN results[i].val ELSE <<>>])

(***************************************************************************)
(* sources/hackernews.py                                                   *)
(***************************************************************************)
HNPermalink(story_id) ==
    "https://news.ycombinator.com/item?id=" \o ToString(story_id)

\* _fetch_story: the whole body is inside try/except Exception -> None.
HNFetchStory(story_id, resp) ==
    IF Failed(resp) THEN NoneResult
    ELSE LET data == resp.body IN
         IF data = <<>> \/ Get(data, "type", "") # "story" THEN NoneResult
         ELSE ArticleResult(Article(
                Get(data, "title", ""),
                Get(data, "url", HNPermalink(story_id)),
                "Hacker News",
                Get(data, "score", 0),
                HNPermalink(story_id),
                Naive(Get(data, "time", 0)),
                <<>>))

\* fetch, lines 30-32: the first request is outside any try block.
HNTopFails(resp) == Failed(resp)

HNStoryIds(cfg, resp) == Take(resp.body, cfg.max_items)

\* fetch, lines 38-45: keep the Article results, sort by score.
HNCollect(cfg, results) ==
    LET got == SelectSeq(results, LAMBDA r : r.tag = "article")
        articles == [i \in 1..Len(got) |-> got[i].val]
    IN  Returns(StableSortDesc(articles, Scores(articles)))

(***************************************************************************)
(* sources/lobsters.py                                                     *)
(***************************************************************************)
\* The published date of a Lobsters story or a Dev.to item: parsed when the
\* field is present, datetime.now() when the parse raises, else None.
ParsedOrNow(item, key) ==
    IF key \in DOMAIN item
    THEN IF ParseRaises(item[key]) THEN Now ELSE item[key]
    ELSE NoneDate

LobstersStory(story) ==
    Article(Get(story, "title", ""),
            IF Truthy(Get(story, "url", None))
            THEN story.url ELSE Get(story, "short_id_url", ""),
            "Lobsters",
            Get(story, "score", 0),
            Get(story, "short_id_url", ""),
            ParsedOrNow(story, "created_at"),
            Get(story, "tags", <<>>))

\* A JSON value with its type: story.get("submitter_user", {}).get(...) at
\* line 53 needs an object; on a string (or null) it raises AttributeError.
JsonString(s) == [json |-> "string", val |-> s]
JsonObject(o) == [json |-> "object", val |-> o]

LobstersStoryRaises(story) ==
    /\ "submitter_user" \in DOMAIN story
    /\ story.submitter_user.json # "object"

\* fetch: one request, everything inside try/except Exception -> []: a
\* story that raises inside the loop loses the stories before it as well.
LobstersFetch(cfg, resp) ==
    IF Failed(resp) THEN Returns(<<>>)
    ELSE LET stories == Take(resp.body, cfg.max_items) IN
         IF \E i \in 1..Len(stories) : LobstersStoryRaises(stories[i])
         THEN Returns(<<>>)
         ELSE Returns([i \in 1..Len(stories) |-> LobstersStory(stories[i])])

(***************************************************************************)
(* sources/reddit.py                                                       *)
(***************************************************************************)
RedditPermalink(post_data) ==
    "https://www.reddit.com" \o Get(post_data, "permalink", "")

RedditPost(subreddit, post_data) ==
    LET url0 == Get(post_data, "url", "")
        is_self == Get(post_data, "is_self", FALSE)
        permalink == RedditPermalink(post_data)
        url == IF is_self \/ ~Truthy(url0)
                  \/ StartsWith(url0, "https://www.reddit.com")
               THEN permalink ELSE url0
    IN  Article(Get(post_data, "title", ""), url, "r/" \o subreddit,
                Get(post_data, "score", 0), permalink,
                Naive(Get(post_data, "created_utc", 0)), <<subreddit>>)

\* _fetch_subreddit: try/except Exception -> []; stickied posts are skipped.
RedditFetchSubreddit(subreddit, resp) ==
    IF Failed(resp) THEN ListResult(<<>>)
    ELSE LET posts == SelectSeq(resp.body,
                                LAMBDA p : ~Get(p, "stickied", FALSE))
         IN  ListResult([i \in 1..Len(posts) |-> RedditPost(subreddit, posts[i])])

RedditCollectPerSubreddit(cfg, results) ==
    \* faulty variant: the cap is applied to each subreddit's list
    Returns(StableSortDesc(
        Concat([i \in 1..Len(results) |->
                  IF results[i].tag = "list"
                  THEN Take(results[i].val, cfg.max_items) ELSE <<>>]),
        Scores(Concat([i \in 1..Len(results) |->
                  IF results[i].tag = "list"
                  THEN Take(results[i].val, cfg.max_items) ELSE <<>>]))))

\* fetch, lines 40-47
RedditCollect(cfg, results) ==
    Returns(Take(StableSortDesc(ExtendLists(results), Scores(ExtendLists(results))), cfg.max_items))

(***************************************************************************)
(* sources/devto.py                                                        *)
(***************************************************************************)
DevToItem(item) ==
    Article(Get(item, "title", ""), Get(item, "url", ""), "Dev.to",
            Get(item, "positive_reactions_count", 0), Get(item, "url", ""),
            ParsedOrNow(item, "published_at"), Get(item, "tag_list", <<>>))

\* _parse_articles
DevToParseArticles(data) == [i \in 1..Len(data) |-> DevToItem(data[i])]

\* _fetch_tag and _fetch_top: try/except Exception -> [].
DevToFetchTag(tag, resp) ==
    IF Failed(resp) THEN ListResult(<<>>)
    ELSE ListResult(DevToParseArticles(resp.body))

DevToFetchTop(cfg, resp) ==
    IF Failed(resp) THEN Returns(<<>>)
    ELSE Returns(DevToParseArticles(resp.body))

UniqueByUrlKeepLast(s) ==
    \* faulty variant: the last occurrence of every url is kept
    LET last == {k \in DOMAIN s : \A m \in (k + 1)..Len(s) : s[m].url # s[k].url}
        nth(n) == CHOOSE k \in last : Cardinality({m \in last : m <= k}) = n
    IN  [n \in 1..Cardinality(last) |-> s[nth(n)]]

\* fetch, lines 41-47: the first occurrence of every url is kept.
RECURSIVE UniqueByUrl(_)
UniqueByUrl(s) ==
    IF s = <<>> THEN <<>>
    ELSE LET n == Len(s)
             rest == UniqueByUrl(SubSeq(s, 1, n - 1))
         IN  IF \E k \in 1..(n - 1) : s[k].url = s[n].url
             THEN rest ELSE Append(rest, s[n])

DevToCollectDedupFirst(cfg, results) ==
    \* faulty variant: duplicates are removed before the sort
    Returns(Take(StableSortDesc(UniqueByUrl(ExtendLists(results)),
                                Scores(UniqueByUrl(ExtendLists(results)))),
                 cfg.max_items))

\* fetch, lines 36-49
DevToCollect(cfg, results) ==
    Returns(Take(UniqueByUrl(StableSortDesc(ExtendLists(results),
                                            Scores(ExtendLists(results)))),
                 cfg.max_items))

(***************************************************************************)
(* sources/rss.py                                                          *)
(***************************************************************************)
RSSPerFeed == 10

RSSPublishedFirstPresent(entry) ==
    \* faulty variant: only the first field that is present is tried
    LET tried == IF "published" \in DOMAIN entry THEN entry.published
                 ELSE IF "updated" \in DOMAIN entry THEN entry.updated
                 ELSE IF "created" \in DOMAIN entry THEN entry.created
                 ELSE NoneDate
    IN  IF tried # NoneDate /\ ParseRaises(tried) THEN NoneDate ELSE tried

\* lines 63-71: the first of published, updated, created that is present
\* and parses; None when there is none.
RSSPublished(entry) ==
    LET usable(f) == f \in DOMAIN entry /\ ~ParseRaises(entry[f]) IN
    IF usable("published") THEN entry.published
    ELSE IF usable("updated") THEN entry.updated
    ELSE IF usable("created") THEN entry.created
    ELSE NoneDate

RSSEntry(name, entry) ==
    Article(Get(entry, "title", "Untitled"), Get(entry, "link", ""), name,
            0, "", RSSPublished(entry), <<>>)

RSSFeedUrl(feed_config) == Get(feed_config, "url", "")

\* _fetch_feed: no url -> [] without a request; try/except Exception -> [].
RSSFetchFeed(feed_config, resp) ==
    LET url == RSSFeedUrl(feed_config)
        name == Get(feed_config, "name", url)
    IN  IF ~Truthy(url) \/ Failed(resp) THEN ListResult(<<>>)
        ELSE LET entries == Take(resp.body, RSSPerFeed) IN
             ListResult([i \in 1..Len(entries) |-> RSSEntry(name, entries[i])])

\* list.sort compares published_at values: ordering a naive and an aware
\* datetime raises TypeError, and a sort of two or more elements of both
\* kinds always makes such a comparison.
MixedAwareness(articles) ==
    \E i, j \in 1..Len(articles) :
        articles[i].published_at.aware # articles[j].published_at.aware

PublishedKeys(s) == [i \in 1..Len(s) |-> s[i].published_at.t]

\* fetch, lines 37-44.  published_at is never None after __post_init__, so
\* the key `a.published_at or datetime.min` is published_at itself.
RSSCollect(cfg, results) ==
    LET articles == ExtendLists(results) IN
    IF MixedAwareness(articles) THEN Raises
    ELSE Returns(Take(StableSortDesc(articles, PublishedKeys(articles)), cfg.max_items))

(***************************************************************************)
(* The payloads the servers may answer with.                               *)
(***************************************************************************)
\* All sequences over S of length at most n.
SeqsUpTo(S, n) == UNION {[1..k -> S] : k \in 0..n}

Failures == {Failure(k) : k \in FailKinds}

\* No request was issued for this coroutine (an RSS feed entry without url).
NoRequest == [kind |-> "none"]

\* /v0/topstories.json: a ranked list of identifiers, possibly longer than
\* max_items.
HNTopResponses ==
    Failures \cup {Ok([i \in 1..k |-> i]) : k \in 0..(MaxItems + 1)}

\* /v0/item/<id>.json: a story with a link, an Ask HN story without one, a
\* comment, a story without title, null.
HNShow == [type |-> "story", title |-> "Show HN", url |-> "https://a.example/post",
           score |-> 1, time |-> 1]
HNAsk == [type |-> "story", title |-> "Ask HN", score |-> 2, time |-> 2]
HNComment == [type |-> "comment", score |-> 2, time |-> 1]
HNUntitled == [type |-> "story", url |-> "https://a.example/untitled", score |-> 1]

\* A text-only story whose item carries an empty url field.
HNText == [type |-> "story", title |-> "Tell HN", url |-> "", score |-> 3,
           time |-> 2]

HNItemBodies == {HNShow, HNAsk, HNText, HNComment, HNUntitled, <<>>}

HNItemResponses == Failures \cup {Ok(b) : b \in HNItemBodies}

\* lobste.rs/hottest.json
LobPost == [title |-> "Lob", url |-> "https://b.example/post",
            short_id_url |-> "https://lobste.rs/s/abc", score |-> 2,
            created_at |-> Aware(1)]
LobText == [title |-> "Text", url |-> "", short_id_url |-> "https://lobste.rs/s/def",
            score |-> 1, created_at |-> BadDateString]
LobBare == [score |-> 1]
\* A story whose submitter is given as the bare user name.
LobFlat == [title |-> "Flat", url |-> "https://b.example/flat",
            short_id_url |-> "https://lobste.rs/s/ghi", score |-> 3,
            created_at |-> Aware(1), submitter_user |-> JsonString("alice")]

LobstersStories == {LobPost, LobText, LobBare, LobFlat}

LobstersResponses ==
    Failures \cup {Ok(b) : b \in SeqsUpTo(LobstersStories, MaxItems + 1)}

\* /r/<subreddit>/hot.json: the children of the listing: a link post, a
\* self post, a pinned post, a post with nothing but a score.
RedditLink == [title |-> "Link", url |-> "https://c.example/post",
               permalink |-> "/r/x/1", score |-> 1, created_utc |-> 1]
RedditSelf == [title |-> "Self", url |-> "https://www.reddit.com/r/x/2",
               is_self |-> TRUE, permalink |-> "/r/x/2", score |-> 2,
               created_utc |-> 1]
RedditPinned == [title |-> "Pinned", url |-> "https://c.example/rules",
                 stickied |-> TRUE, permalink |-> "/r/x/3", score |-> 3,
                 created_utc |-> 1]
RedditBare == [score |-> 1]
\* A link post whose link is a thread on another of reddit's hosts.
RedditOld == [title |-> "Old", url |-> "https://old.reddit.com/r/x/4",
              permalink |-> "/r/x/5", score |-> 2, created_utc |-> 1]

RedditPosts == {RedditLink, RedditSelf, RedditPinned, RedditBare, RedditOld}

RedditResponses == Failures \cup {Ok(b) : b \in SeqsUpTo(RedditPosts, 2)}

\* dev.to/api/articles: two copies of one article with different reaction
\* counts, another article, an item without title and url.
DevToEarly == [title |-> "Early copy", url |-> "https://dev.to/a",
               positive_reactions_count |-> 1, published_at |-> Aware(1)]
DevToLate == [title |-> "Late copy", url |-> "https://dev.to/a",
              positive_reactions_count |-> 2, published_at |-> Aware(1)]
DevToOther == [title |-> "Other", url |-> "https://dev.to/b",
               positive_reactions_count |-> 1, published_at |-> BadDateString]
DevToBare == [positive_reactions_count |-> 3]
\* A copy of the first article with the same reaction count, told apart by
\* its title.
DevToTwin == [title |-> "Twin copy", url |-> "https://dev.to/a",
              positive_reactions_count |-> 1, published_at |-> Aware(1)]

DevToItems == {DevToEarly, DevToLate, DevToOther, DevToBare, DevToTwin}

DevToResponses == Failures \cup {Ok(b) : b \in SeqsUpTo(DevToItems, 2)}

\* feed entries as feedparser yields them: a dated entry (RFC 822 and
\* ISO 8601 dates carry a zone: aware), a dated entry without title and
\* link, an entry without any date, an entry whose published does not parse
\* and whose updated has no zone.
RSSDated == [title |-> "Dated", link |-> "https://d.example/dated",
             published |-> Aware(1)]
RSSBare == [published |-> Aware(2)]
RSSUndated == [title |-> "Undated", link |-> "https://d.example/undated"]
RSSUpdated == [title |-> "Updated", link |-> "https://d.example/updated",
               published |-> BadDateString, updated |-> Naive(1)]

RSSEntries == {RSSDated, RSSBare, RSSUndated, RSSUpdated}

\* A feed with one entry more than the per-feed cap: the first has a
\* created date only, the second a created date after two dates that do
\* not parse, the third three dates that do not parse, the fourth no
\* published date, the others a published and an updated date.
RSSLongEntry(k) ==
    LET link == [title |-> "Entry " \o ToString(k),
                 link |-> "https://d.example/" \o ToString(k)]
    IN  CASE k = 1 -> link @@ [created |-> Aware(1)]
          [] k = 2 -> link @@ [published |-> BadDateString,
                               updated |-> BadDateString, created |-> Aware(2)]
          [] k = 3 -> link @@ [published |-> BadDateString,
                               updated |-> BadDateString,
                               created |-> BadDateString]
          [] k = 4 -> link @@ [updated |-> Aware(1), created |-> Aware(2)]
          [] OTHER -> link @@ [published |-> Aware(1), updated |-> Aware(2)]

RSSLongFeed == [k \in 1..(RSSPerFeed + 1) |-> RSSLongEntry(k)]

RSSResponses ==
    Failures \cup {Ok(b) : b \in SeqsUpTo(RSSEntries, 2)} \cup {Ok(RSSLongFeed)}

(***************************************************************************)
(* The configurations an adapter runs under.                               *)
(***************************************************************************)
AdapterNames == {"hackernews", "reddit", "lobsters", "devto", "rss"}

SubName(i) == "sub" \o ToString(i)
TagName(i) == "tag" \o ToString(i)
FeedConfig(i) == [url |-> "https://feed" \o ToString(i) \o ".example/rss",
                  name |-> "Feed " \o ToString(i)]

\* A feed entry without name (the url is the label) and one without url.
UnnamedFeed == [url |-> "https://unnamed.example/rss"]
NoUrlFeed == [name |-> "No Url"]

FeedLists ==
    {[i \in 1..k |-> FeedConfig(i)] : k \in 0..MaxSub}
    \cup {<<NoUrlFeed, UnnamedFeed>>}

AdapterConfigs(name) ==
    LET M == 0..MaxItems IN
    CASE name = "reddit" ->
           {SourceConfig(m, [i \in 1..k |-> SubName(i)], <<>>, <<>>)
               : m \in M, k \in 0..MaxSub}
      [] name = "devto" ->
           {SourceConfig(m, <<>>, <<>>, [i \in 1..k |-> TagName(i)])
               : m \in M, k \in 0..MaxSub}
      [] name = "rss" ->
           {SourceConfig(m, <<>>, f, <<>>) : m \in M, f \in FeedLists}
      [] OTHER -> {SourceConfig(m, <<>>, <<>>, <<>>) : m \in M}

(***************************************************************************)
(* One adapter's fetch() as a state machine.                               *)
(***************************************************************************)
\* The arguments of the coroutines fetch() hands to asyncio.gather.
FanOutArgs(name, cfg) ==
    CASE name = "reddit" -> cfg.subreddits
      [] name = "devto" -> cfg.tags
      [] name = "rss" -> cfg.feeds
      [] OTHER -> <<>>

NewTasks(args) ==
    [i \in 1..Len(args) |->
        [arg |-> args[i], st |-> "running", resp |-> NoRequest,
         result |-> NoneResult]]

\* What one coroutine of the gather returns for the response it gets.
SubResult(name, arg, resp) ==
    CASE name = "hackernews" -> HNFetchStory(arg, resp)
      [] name = "reddit" -> RedditFetchSubreddit(arg, resp)
      [] name = "devto" -> DevToFetchTag(arg, resp)
      [] name = "rss" -> RSSFetchFeed(arg, resp)

SubResponses(name, arg) ==
    CASE name = "hackernews" -> HNItemResponses
      [] name = "reddit" -> RedditResponses
      [] name = "devto" -> DevToResponses
      [] name = "rss" -> IF Truthy(RSSFeedUrl(arg)) THEN RSSResponses
                         ELSE {NoRequest}

\* The code after the gather.
Collect(name, cfg, results) ==
    CASE name = "hackernews" -> HNCollect(cfg, results)
      [] name = "reddit" -> RedditCollect(cfg, results)
      [] name = "devto" -> DevToCollect(cfg, results)
      [] name = "rss" -> RSSCollect(cfg, results)

Results(tasks) == [i \in 1..Len(tasks) |-> tasks[i].result]

\* The orchestrator and the assembler do not run.
OnlyAdapter ==
    UNCHANGED <<orch_vars, digest_vars, content_vars, generate_vars, domain_vars,
                retention_vars>>

NotYet == [raised |-> FALSE, articles |-> <<>>]

AdapterInit ==
    /\ a_name \in AdapterNames
    /\ a_cfg \in AdapterConfigs(a_name)
    /\ a_pc = "start"
    /\ a_tasks = <<>>
    /\ a_out = NotYet
    /\ a_first = NoRequest

\* hackernews.py:30-36: the topstories request, then one coroutine per id.
TopStories(resp) ==
    /\ a_name = "hackernews" /\ a_pc = "start"
    /\ a_first' = resp
    /\ IF HNTopFails(resp)
       THEN a_pc' = "done" /\ a_out' = Raises /\ UNCHANGED a_tasks
       ELSE /\ a_pc' = "gather"
            /\ a_tasks' = NewTasks(HNStoryIds(a_cfg, resp))
            /\ UNCHANGED a_out
    /\ UNCHANGED <<a_name, a_cfg>>
    /\ OnlyAdapter

\* lobsters.py:29-65 and devto.py:51-64 (no tags): a single request.
SingleRequest(resp) ==
    /\ a_pc = "start"
    /\ \/ a_name = "lobsters" /\ resp \in LobstersResponses
          /\ a_out' = LobstersFetch(a_cfg, resp)
       \/ a_name = "devto" /\ a_cfg.tags = <<>> /\ resp \in DevToResponses
          /\ a_out' = DevToFetchTop(a_cfg, resp)
    /\ a_first' = resp
    /\ a_pc' = "done"
    /\ UNCHANGED <<a_name, a_cfg, a_tasks>>
    /\ OnlyAdapter

\* reddit.py:31-32 and rss.py:30-31: nothing configured, return [].
NothingConfigured ==
    /\ a_pc = "start"
    /\ a_name \in {"reddit", "rss"}
    /\ FanOutArgs(a_name, a_cfg) = <<>>
    /\ a_out' = Returns(<<>>)
    /\ a_pc' = "done"
    /\ UNCHANGED <<a_name, a_cfg, a_tasks, a_first>>
    /\ OnlyAdapter

\* reddit.py:35-38, devto.py:33-34, rss.py:34-35: the fan-out.
Gather ==
    /\ a_pc = "start"
    /\ a_name \in {"reddit", "devto", "rss"}
    /\ FanOutArgs(a_name, a_cfg) # <<>>
    /\ a_tasks' = NewTasks(FanOutArgs(a_name, a_cfg))
    /\ a_pc' = "gather"
    /\ UNCHANGED <<a_name, a_cfg, a_out, a_first>>
    /\ OnlyAdapter

\* One coroutine of the gather ends; the coroutines end in any order.
Complete(i, resp) ==
    /\ a_pc = "gather"
    /\ i \in 1..Len(a_tasks)
    /\ a_tasks[i].st = "running"
    /\ resp \in SubResponses(a_name, a_tasks[i].arg)
    /\ a_tasks' = [a_tasks EXCEPT ![i] =
                      [arg |-> @.arg, st |-> "done", resp |-> resp,
                       result |-> SubResult(a_name, @.arg, resp)]]
    /\ UNCHANGED <<a_name, a_cfg, a_pc, a_out, a_first>>
    /\ OnlyAdapter

\* gather returns once every coroutine has ended; the rest of fetch() runs.
Collected ==
    /\ a_pc = "gather"
    /\ \A i \in 1..Len(a_tasks) : a_tasks[i].st = "done"
    /\ a_out' = Collect(a_name, a_cfg, Results(a_tasks))
    /\ a_pc' = "done"
    /\ UNCHANGED <<a_name, a_cfg, a_tasks, a_first>>
    /\ OnlyAdapter

AdapterNext ==
    \/ \E resp \in HNTopResponses : TopStories(resp)
    \/ \E resp \in LobstersResponses \cup DevToResponses : SingleRequest(resp)
    \/ NothingConfigured
    \/ Gather
    \/ \E i \in DOMAIN a_tasks :
          \E resp \in SubResponses(a_name, a_tasks[i].arg) : Complete(i, resp)
    \/ Collected

(***************************************************************************)
(* sources/__init__.py: the registry.                                      *)
(***************************************************************************)
SOURCES == [hackernews |-> "HackerNewsSource", reddit |-> "RedditSource",
            lobsters |-> "LobstersSource", devto |-> "DevToSource",
            rss |-> "RSSSource"]

NoClass == "None"
KeyError == "KeyError"

SourcesIndex(name) ==
    \* faulty variant: SOURCES[name], which raises for an unknown name
    IF name \in DOMAIN SOURCES THEN SOURCES[name] ELSE KeyError

\* SOURCES.get(source_name)
SourcesGet(name) == IF name \in DOMAIN SOURCES THEN SOURCES[name] ELSE NoClass

(***************************************************************************)
(* source.fetch() as a function of the responses its requests get: `first` *)
(* answers the first or only request, subs[i] the i-th gathered coroutine. *)
(***************************************************************************)
Fetch(name, cfg, first, subs) ==
    LET gathered(args) ==
            Collect(name, cfg,
                    [i \in 1..Len(args) |-> SubResult(name, args[i], subs[i])])
    IN  CASE name = "hackernews" ->
               IF HNTopFails(first) THEN Raises
               ELSE gathered(HNStoryIds(cfg, first))
          [] name = "lobsters" -> LobstersFetch(cfg, first)
          [] name = "devto" /\ cfg.tags = <<>> -> DevToFetchTop(cfg, first)
          [] OTHER ->
               IF FanOutArgs(name, cfg) = <<>> THEN Returns(<<>>)
               ELSE gathered(FanOutArgs(name, cfg))

\* How many coroutines fetch() gathers.
FanOutWidth(name, cfg, first) ==
    IF name = "hackernews"
    THEN IF HNTopFails(first) THEN 0 ELSE Len(HNStoryIds(cfg, first))
    ELSE Len(FanOutArgs(name, cfg))

(***************************************************************************)
(* The configurations and server behaviours the orchestrator is run        *)
(* against.  An RSS feed may carry any display name, "Lobsters" included.  *)
(***************************************************************************)
ConfigNames == DOMAIN SOURCES \cup {"mastodon"}

ScenarioConfig(name) ==
    CASE name = "reddit" -> SourceConfig(2, <<"python", "rust">>, <<>>, <<>>)
      [] name = "devto" -> SourceConfig(2, <<>>, <<>>, <<"tag1">>)
      [] name = "rss" ->
           SourceConfig(2, <<>>,
                        <<[url |-> "https://lobste.rs/rss", name |-> "Lobsters"],
                          FeedConfig(1)>>, <<>>)
      [] OTHER -> SourceConfig(2, <<>>, <<>>, <<>>)

ScenarioFirst(name) ==
    CASE name = "hackernews" -> {Failure("http_error"), Ok(<<1, 2>>)}
      [] name = "lobsters" -> {Failure("timeout"), Ok(<<LobText, LobPost>>)}
      [] OTHER -> {NoRequest}

ScenarioSubs(name) ==
    CASE name = "hackernews" -> {Ok(HNShow), Ok(HNAsk)}
      [] name = "reddit" -> {Failure("timeout"), Ok(<<RedditLink, RedditSelf>>)}
      [] name = "devto" -> {Failure("http_error"), Ok(<<DevToEarly, DevToOther>>)}
      [] name = "rss" -> {Ok(<<RSSDated>>), Ok(<<RSSUndated>>)}
      [] OTHER -> {}

\* What source.fetch() may do for a config entry.
FetchOutcomes(entry) ==
    UNION {{Fetch(entry.name, entry.cfg, first, subs)
               : subs \in [1..FanOutWidth(entry.name, entry.cfg, first)
                             -> ScenarioSubs(entry.name)]}
              : first \in ScenarioFirst(entry.name)}

Entries ==
    {[name |-> n, enabled |-> e, cfg |-> ScenarioConfig(n)]
        : n \in ConfigNames, e \in BOOLEAN}

\* config.sources is a dict: its keys are distinct.
Configs ==
    {c \in SeqsUpTo(Entries, MaxSources) :
        \A i, j \in DOMAIN c : i # j => c[i].name # c[j].name}

(***************************************************************************)
(* main.py: fetch_all_sources.                                             *)
(***************************************************************************)
NotCalled == [called |-> FALSE, raised |-> FALSE, articles |-> <<>>]
Called(outcome) ==
    [called |-> TRUE, raised |-> outcome.raised, articles |-> outcome.articles]

\* The adapters and the assembler do not run.
OnlyOrch ==
    UNCHANGED <<adapter_vars, digest_vars, content_vars, generate_vars, domain_vars,
                retention_vars>>

\* line 32: if not source_config.enabled: continue
IsEnabledAlways(entry) ==
    \* faulty variant: the enabled flag is not consulted
    TRUE

IsEnabled(entry) == entry.enabled

\* lines 31-41: the loop body of entry i starts when the bodies before it
\* have ended: the body awaits its adapter before the loop goes on.
TurnAnyTime(i) ==
    \* faulty variant: the bodies are started together, as by a gather
    TRUE

Turn(i) == \A j \in 1..(i - 1) : est[j] = "done"

\* lines 44-48: group one article under its own source label.
AddArticleUnderName(groups, source_name, article) ==
    \* faulty variant: the configured name is the key
    IF \E g \in DOMAIN groups : groups[g].key = source_name
    THEN LET g == CHOOSE g \in DOMAIN groups : groups[g].key = source_name
         IN  [groups EXCEPT ![g].articles = Append(@, article)]
    ELSE Append(groups, [key |-> source_name, articles |-> <<article>>])

AddArticle(groups, source_name, article) ==
    LET source_key == article.source IN
    IF \E g \in DOMAIN groups : groups[g].key = source_key
    THEN LET g == CHOOSE g \in DOMAIN groups : groups[g].key = source_key
         IN  [groups EXCEPT ![g].articles = Append(@, article)]
    ELSE Append(groups, [key |-> source_key, articles |-> <<article>>])

GroupArticlesAssigning(groups, source_name, articles) ==
    \* faulty variant: a label's list is assigned, not appended to, so a
    \* label's later articles replace its earlier ones
    LET labels == {articles[k].source : k \in DOMAIN articles}
        kept == [g \in DOMAIN groups |->
                    IF groups[g].key \in labels
                    THEN [groups[g] EXCEPT !.articles =
                            SelectSeq(articles, LAMBDA a : a.source = groups[g].key)]
                    ELSE groups[g]]
        fresh == SelectSeq(articles,
                           LAMBDA a : \A g \in DOMAIN groups : groups[g].key # a.source)
    IN  IF fresh = <<>> THEN kept
        ELSE kept \o
             [k \in 1..Cardinality({fresh[j].source : j \in DOMAIN fresh}) |->
                 LET key == fresh[CHOOSE j \in DOMAIN fresh :
                                    Cardinality({fresh[m].source : m \in 1..j}) = k
                                    /\ \A m \in 1..(j - 1) :
                                           fresh[m].source # fresh[j].source].source
                 IN  [key |-> key,
                      articles |-> SelectSeq(fresh, LAMBDA a : a.source = key)]]

RECURSIVE GroupArticles(_, _, _)
GroupArticles(groups, source_name, articles) ==
    IF articles = <<>> THEN groups
    ELSE GroupArticles(AddArticle(groups, source_name, Head(articles)),
                       source_name, Tail(articles))

OrchInit ==
    /\ config \in Configs
    /\ o_pc = "loop"
    /\ est = [i \in DOMAIN config |-> "todo"]
    /\ articles_by_source = <<>>
    /\ warnings = <<>>
    /\ client = [i \in DOMAIN config |-> "none"]
    /\ closes = [i \in DOMAIN config |-> 0]
    /\ inflight = {}
    /\ returned = [i \in DOMAIN config |-> NotCalled]

\* lines 32-33
SkipDisabled(i) ==
    /\ o_pc = "loop" /\ est[i] = "todo" /\ Turn(i)
    /\ ~IsEnabled(config[i])
    /\ est' = [est EXCEPT ![i] = "done"]
    /\ UNCHANGED <<config, o_pc, articles_by_source, warnings, client, closes,
                   inflight, returned>>
    /\ OnlyOrch

\* lines 35-37: the lookup is outside the try block.
SkipUnknown(i) ==
    /\ o_pc = "loop" /\ est[i] = "todo" /\ Turn(i)
    /\ IsEnabled(config[i])
    /\ SourcesGet(config[i].name) \in {NoClass, KeyError}
    /\ IF SourcesGet(config[i].name) = KeyError
       THEN o_pc' = "crashed" /\ UNCHANGED est
       ELSE est' = [est EXCEPT ![i] = "done"] /\ UNCHANGED o_pc
    /\ UNCHANGED <<config, articles_by_source, warnings, client, closes,
                   inflight, returned>>
    /\ OnlyOrch

\* line 40: source_class(source_config) builds the adapter and its client,
\* inside the try block; __aenter__ returns the adapter.
Construct(i, ok) ==
    /\ o_pc = "loop" /\ est[i] = "todo" /\ Turn(i)
    /\ IsEnabled(config[i])
    /\ SourcesGet(config[i].name) \notin {NoClass, KeyError}
    /\ IF ok
       THEN /\ client' = [client EXCEPT ![i] = "open"]
            /\ est' = [est EXCEPT ![i] = "open"]
            /\ UNCHANGED warnings
       ELSE /\ warnings' = Append(warnings, config[i].name)
            /\ est' = [est EXCEPT ![i] = "done"]
            /\ UNCHANGED client
    /\ UNCHANGED <<config, o_pc, articles_by_source, closes, inflight, returned>>
    /\ OnlyOrch

\* line 41: await source.fetch() begins.
StartFetch(i) ==
    /\ o_pc = "loop" /\ est[i] = "open"
    /\ est' = [est EXCEPT ![i] = "fetching"]
    /\ inflight' = inflight \cup {i}
    /\ UNCHANGED <<config, o_pc, articles_by_source, warnings, client, closes,
                   returned>>
    /\ OnlyOrch

\* lines 41-48: fetch() ends; the returned articles are grouped.
EndFetch(i, outcome) ==
    /\ o_pc = "loop" /\ est[i] = "fetching"
    /\ outcome \in FetchOutcomes(config[i])
    /\ inflight' = inflight \ {i}
    /\ returned' = [returned EXCEPT ![i] = Called(outcome)]
    /\ IF outcome.raised
       THEN /\ est' = [est EXCEPT ![i] = "failed"]
            /\ UNCHANGED articles_by_source
       ELSE /\ est' = [est EXCEPT ![i] = "fetched"]
            /\ articles_by_source' =
                   GroupArticles(articles_by_source, config[i].name,
                                 outcome.articles)
    /\ UNCHANGED <<config, o_pc, warnings, client, closes>>
    /\ OnlyOrch

ExitClosesOnSuccessOnly(i, ok) ==
    \* faulty variant: the client is closed only when fetch() returned
    /\ o_pc = "loop" /\ est[i] \in {"fetched", "failed"}
    /\ IF est[i] = "fetched"
       THEN /\ closes' = [closes EXCEPT ![i] = @ + 1]
            /\ client' = [client EXCEPT ![i] = IF ok THEN "closed"
                                               ELSE "close_failed"]
       ELSE UNCHANGED <<closes, client>>
    /\ warnings' = IF est[i] = "failed" \/ ~ok
                   THEN Append(warnings, config[i].name) ELSE warnings
    /\ est' = [est EXCEPT ![i] = "done"]
    /\ UNCHANGED <<config, o_pc, articles_by_source, inflight, returned>>
    /\ OnlyOrch

\* base.py:30-31 and main.py:50-51: __aexit__ closes the client; an
\* exception of fetch() or of aclose() reaches the except clause.
Exit(i, ok) ==
    /\ o_pc = "loop" /\ est[i] \in {"fetched", "failed"}
    /\ closes' = [closes EXCEPT ![i] = @ + 1]
    /\ client' = [client EXCEPT ![i] = IF ok THEN "closed" ELSE "close_failed"]
    /\ warnings' = IF est[i] = "failed" \/ ~ok
                   THEN Append(warnings, config[i].name) ELSE warnings
    /\ est' = [est EXCEPT ![i] = "done"]
    /\ UNCHANGED <<config, o_pc, articles_by_source, inflight, returned>>
    /\ OnlyOrch

\* line 53
Return ==
    /\ o_pc = "loop"
    /\ \A i \in DOMAIN config : est[i] = "done"
    /\ o_pc' = "returned"
    /\ UNCHANGED <<config, est, articles_by_source, warnings, client, closes,
                   inflight, returned>>
    /\ OnlyOrch

OrchNext ==
    \/ \E i \in DOMAIN config : SkipDisabled(i)
    \/ \E i \in DOMAIN config : SkipUnknown(i)
    \/ \E i \in DOMAIN config, ok \in BOOLEAN : Construct(i, ok)
    \/ \E i \in DOMAIN config : StartFetch(i)
    \/ \E i \in inflight :
          \E outcome \in FetchOutcomes(config[i]) : EndFetch(i, outcome)
    \/ \E i \in DOMAIN config, ok \in BOOLEAN : Exit(i, ok)
    \/ Return

(***************************************************************************)
(* epub/generator.py: create_digest_from_articles.                         *)
(***************************************************************************)
\* models.py: Section
Section(title, articles) == [title |-> title, articles |-> articles]

CountSections(secs) ==
    \* faulty variant: the sections are counted, not their articles
    Len(secs)

\* models.py: Digest.total_articles
TotalArticles(secs) ==
    Len(Concat([k \in DOMAIN secs |-> secs[k].articles]))

SourceOrderLobstersFirst ==
    \* faulty variant: the first two priority labels swapped
    <<"Lobsters", "Hacker News", "Dev.to">>

\* line 238
source_order == <<"Hacker News", "Lobsters", "Dev.to">>

InSourceOrder(source_name) ==
    \E k \in DOMAIN source_order : source_order[k] = source_name

HasKey(groups, key) == \E g \in DOMAIN groups : groups[g].key = key

Lookup(groups, key) ==
    groups[CHOOSE g \in DOMAIN groups : groups[g].key = key].articles

\* The mappings the assembler is given: distinct labels, lists that may be
\* empty.
GroupLabels == {"Hacker News", "Lobsters", "Dev.to", "r/python", "Feed 1"}

SomeArticles(key, n) ==
    [k \in 1..n |->
        Article("Title " \o ToString(k), "https://e.example/" \o ToString(k),
                key, 0, "", NoneDate, <<>>)]

GroupChoices ==
    {[key |-> l, articles |-> SomeArticles(l, n)] : l \in GroupLabels, n \in 0..2}

Mappings ==
    {m \in SeqsUpTo(GroupChoices, MaxGroups) :
        \A g, h \in DOMAIN m : g # h => m[g].key # m[h].key}

\* The adapters and the orchestrator do not run.
OnlyDigest ==
    UNCHANGED <<orch_vars, adapter_vars, content_vars, generate_vars, domain_vars,
                retention_vars>>

DigestInit ==
    /\ d_groups \in Mappings
    /\ d_pc = "priority"
    /\ d_i = 1
    /\ sections = <<>>

\* lines 241-248: one turn of the loop over source_order.
PriorityStep ==
    /\ d_pc = "priority" /\ d_i <= Len(source_order)
    /\ LET source_name == source_order[d_i] IN
       sections' = IF HasKey(d_groups, source_name)
                      /\ Lookup(d_groups, source_name) # <<>>
                   THEN Append(sections,
                               Section(source_name, Lookup(d_groups, source_name)))
                   ELSE sections
    /\ d_i' = d_i + 1
    /\ UNCHANGED <<d_groups, d_pc>>
    /\ OnlyDigest

\* line 251: the first loop is over, the second begins.
PriorityDone ==
    /\ d_pc = "priority" /\ d_i > Len(source_order)
    /\ d_pc' = "remaining" /\ d_i' = 1
    /\ UNCHANGED <<d_groups, sections>>
    /\ OnlyDigest

\* lines 251-258: one turn of the loop over articles_by_source.items().
RemainingStep ==
    /\ d_pc = "remaining" /\ d_i <= Len(d_groups)
    /\ LET source_name == d_groups[d_i].key
           articles == d_groups[d_i].articles
       IN  sections' = IF ~InSourceOrder(source_name) /\ articles # <<>>
                       THEN Append(sections, Section(source_name, articles))
                       ELSE sections
    /\ d_i' = d_i + 1
    /\ UNCHANGED <<d_groups, d_pc>>
    /\ OnlyDigest

\* lines 260-265: the Digest is returned.
DigestReturn ==
    /\ d_pc = "remaining" /\ d_i > Len(d_groups)
    /\ d_pc' = "done"
    /\ UNCHANGED <<d_groups, d_i, sections>>
    /\ OnlyDigest

DigestNext == PriorityStep \/ PriorityDone \/ RemainingStep \/ DigestReturn

(***************************************************************************)
(* str.find, str.replace and urllib.parse.urlparse(url).netloc, as         *)
(* models.py:33-34 and content.py:51 use them.                             *)
(***************************************************************************)
\* str.find(sub, start) counted from 1; 0 when sub does not occur.
RECURSIVE Find(_, _, _)
Find(s, sub, start) ==
    IF start + Len(sub) - 1 > Len(s) THEN 0
    ELSE IF SubSeq(s, start, start + Len(sub) - 1) = sub THEN start
    ELSE Find(s, sub, start + 1)

\* str.replace(old, ""): every non-overlapping occurrence, left to right.
RECURSIVE Remove(_, _)
Remove(s, old) ==
    LET i == Find(s, old, 1) IN
    IF i = 0 THEN s
    ELSE SubSeq(s, 1, i - 1) \o Remove(SubSeq(s, i + Len(old), Len(s)), old)

\* urlsplit: what follows "<scheme>:" when the url starts with a scheme.
AfterScheme(url) ==
    LET i == Find(url, ":", 1) IN
    IF i > 1 /\ Find(SubSeq(url, 1, i - 1), "/", 1) = 0
    THEN SubSeq(url, i + 1, Len(url)) ELSE url

\* urlsplit: netloc is what follows "//", up to the first of / ? #; it keeps
\* the userinfo and the port.
Netloc(url) ==
    LET rest == AfterScheme(url) IN
    IF ~StartsWith(rest, "//") THEN ""
    ELSE LET r == SubSeq(rest, 3, Len(rest))
             ends == {Find(r, c, 1) : c \in {"/", "?", "#"}} \ {0}
             e == IF ends = {} THEN Len(r) + 1
                  ELSE CHOOSE m \in ends : \A n \in ends : m <= n
         IN  SubSeq(r, 1, e - 1)

\* urlsplit raises ValueError when only one of [ and ] is in netloc.
UrlParseRaises(url) ==
    (Find(Netloc(url), "[", 1) # 0) # (Find(Netloc(url), "]", 1) # 0)

\* models.py: Article.domain
Domain(url) ==
    IF UrlParseRaises(url) THEN "" ELSE Remove(Netloc(url), "www.")

(***************************************************************************)
(* content.py                                                              *)
(***************************************************************************)
MaxArticles == 5    \* at most MaxArticles articles are enriched
MaxConcurrent == 2  \* max_concurrent ranges over 1..MaxConcurrent

SKIP_DOMAINS ==
    {"twitter.com", "x.com", "youtube.com", "youtu.be", "github.com",
     "reddit.com", "news.ycombinator.com", "lobste.rs", "dev.to", "medium.com",
     "nytimes.com", "wsj.com", "bloomberg.com", "ft.com", "patreon.com",
     "substack.com"}

ContentResult(url, content, success, error) ==
    [url |-> url, content |-> content, success |-> success, error |-> error]

NoResult == [url |-> None]

\* What client.get(url), raise_for_status and trafilatura.extract may do: a
\* timeout, an error status, another exception (str(e) may be empty), a
\* page from which text is extracted, a page from which none is.
ContentResponses ==
    {[kind |-> "timeout"], [kind |-> "status", code |-> 404],
     [kind |-> "error", text |-> "All connection attempts failed"],
     [kind |-> "error", text |-> ""],
     [kind |-> "ok", extracted |-> "<p>Text</p>"],
     [kind |-> "ok", extracted |-> None]}

\* fetch_content, lines 51-53: the skip test.
SkipsDomain(url) == Remove(Netloc(url), "www.") \in SKIP_DOMAINS

\* fetch_content, line 53
Skipped(url) == ContentResult(url, "", FALSE, "Domain skipped")

\* fetch_content, lines 49-51 and 89-90: urlparse raised.
ParseFailed(url) == ContentResult(url, "", FALSE, "Invalid IPv6 URL")

\* fetch_content, lines 56-90: the request was made.
FetchContentResult(url, resp) ==
    CASE resp.kind = "timeout" -> ContentResult(url, "", FALSE, "Timeout")
      [] resp.kind = "status" ->
           ContentResult(url, "", FALSE, "HTTP " \o ToString(resp.code))
      [] resp.kind = "error" -> ContentResult(url, "", FALSE, resp.text)
      [] resp.kind = "ok" ->
           IF Truthy(resp.extracted)
           THEN ContentResult(url, resp.extracted, TRUE, "")
           ELSE ContentResult(url, "", FALSE, "No content extracted")

\* The articles: a blog post, a deny-listed site with "www.", a deny-listed
\* site with an explicit port, a url urlparse rejects, the blog post once
\* more (already carrying content), deny-listed sites.
ContentUrl(i) ==
    CASE i = 1 -> "https://blog.example/post"
      [] i = 2 -> "https://www.reddit.com/r/x/1"
      [] i = 3 -> "https://github.com:443/o/r"
      [] i = 4 -> "http://[::1/post"
      [] i = 5 -> "https://blog.example/post"
      [] OTHER -> "https://youtu.be/v"

ContentArticle(i) ==
    [x \in DOMAIN Article("", "", "", 0, "", NoneDate, <<>>) \cup {"content"} |->
        IF x = "content" THEN (IF i = 5 THEN "<p>Earlier</p>" ELSE "")
        ELSE Article("Article " \o ToString(i), ContentUrl(i), "Feed", i, "",
                     NoneDate, <<>>)[x]]

\* Lines 49-52 for each of the urls above: whether urlparse raises and
\* whether the skip test holds.
UrlTests ==
    [u \in {ContentUrl(i) : i \in 1..MaxArticles} |->
        [raises |-> UrlParseRaises(u),
         skips |-> ~UrlParseRaises(u) /\ SkipsDomain(u)]]

\* The lists of articles: the articles above, some left out.
ContentLists ==
    {s \in SeqsUpTo(1..MaxArticles, MaxArticles) :
        \A i, j \in DOMAIN s : i < j => s[i] < s[j]}

\* line 118: dict(results): for a url, the result of its last coroutine.
DictOfResults(articles, st, results) ==
    LET fetched == {i \in DOMAIN articles : st[i] # "none"} IN
    [u \in {articles[i].url : i \in fetched} |->
        results[CHOOSE i \in fetched :
                   /\ articles[i].url = u
                   /\ \A j \in fetched : articles[j].url = u => j <= i]]

EnrichOneWhateverResult(article, content_results) ==
    \* faulty variant: the result's content is copied whenever a result exists
    IF article.url \in DOMAIN content_results
    THEN [article EXCEPT !.content = content_results[article.url].content]
    ELSE article

\* enrich_articles_with_content, lines 135-137, for one article.
EnrichOne(article, content_results) ==
    IF /\ article.url \in DOMAIN content_results
       /\ content_results[article.url].success
       /\ Truthy(content_results[article.url].content)
    THEN [article EXCEPT !.content = content_results[article.url].content]
    ELSE article

\* The adapters, the orchestrator, the assembler, the command and the domain
\* property do not run.
OnlyContent ==
    UNCHANGED <<orch_vars, adapter_vars, digest_vars, generate_vars, domain_vars,
                retention_vars>>

\* fetch_articles_content(articles[:k], max_concurrent): one coroutine per
\* article, all created (line 115); the other articles are only enriched.
ContentInit ==
    /\ \E s \in ContentLists : c_articles = [i \in DOMAIN s |-> ContentArticle(s[i])]
    /\ c_max \in 1..MaxConcurrent
    /\ c_sem = c_max
    /\ \E k \in 0..Len(c_articles) :
           c_st = [i \in DOMAIN c_articles |-> IF i <= k THEN "waiting" ELSE "none"]
    /\ c_results = [i \in DOMAIN c_articles |-> NoResult]
    /\ c_requested = {}
    /\ c_map = <<>>
    /\ c_pc = "gather"
    /\ c_out = <<>>

SemaphoreNeverFull ==
    \* faulty variant: the semaphore is not consulted
    TRUE

\* line 111: async with semaphore: the coroutine goes on when the value is
\* positive.
SemaphoreFree == c_sem > 0

\* line 111: coroutine i enters the semaphore.
Acquire(i) ==
    /\ c_pc = "gather" /\ c_st[i] = "waiting" /\ SemaphoreFree
    /\ c_sem' = c_sem - 1
    /\ c_st' = [c_st EXCEPT ![i] = "acquired"]
    /\ UNCHANGED <<c_articles, c_max, c_results, c_requested, c_map, c_pc, c_out>>
    /\ OnlyContent

\* lines 49-51, 89-90, 113: urlparse raises; fetch_content returns the failure
\* and the semaphore is released.
ParseFails(i) ==
    /\ c_pc = "gather" /\ c_st[i] = "acquired"
    /\ UrlTests[c_articles[i].url].raises
    /\ c_results' = [c_results EXCEPT ![i] = ParseFailed(c_articles[i].url)]
    /\ c_st' = [c_st EXCEPT ![i] = "done"]
    /\ c_sem' = c_sem + 1
    /\ UNCHANGED <<c_articles, c_max, c_requested, c_map, c_pc, c_out>>
    /\ OnlyContent

\* lines 51-53, 113: the domain is deny-listed; no request.
SkipDomain(i) ==
    /\ c_pc = "gather" /\ c_st[i] = "acquired"
    /\ ~UrlTests[c_articles[i].url].raises
    /\ UrlTests[c_articles[i].url].skips
    /\ c_results' = [c_results EXCEPT ![i] = Skipped(c_articles[i].url)]
    /\ c_st' = [c_st EXCEPT ![i] = "done"]
    /\ c_sem' = c_sem + 1
    /\ UNCHANGED <<c_articles, c_max, c_requested, c_map, c_pc, c_out>>
    /\ OnlyContent

\* lines 56-61: client.get(url) is awaited.
Request(i) ==
    /\ c_pc = "gather" /\ c_st[i] = "acquired"
    /\ ~UrlTests[c_articles[i].url].raises
    /\ ~UrlTests[c_articles[i].url].skips
    /\ c_requested' = c_requested \cup {i}
    /\ c_st' = [c_st EXCEPT ![i] = "requesting"]
    /\ UNCHANGED <<c_articles, c_max, c_sem, c_results, c_map, c_pc, c_out>>
    /\ OnlyContent

\* lines 61-90, 113: the request ends; fetch_content returns and the
\* semaphore is released.
Respond(i, resp) ==
    /\ c_pc = "gather" /\ c_st[i] = "requesting"
    /\ c_results' = [c_results EXCEPT
                        ![i] = FetchContentResult(c_articles[i].url, resp)]
    /\ c_st' = [c_st EXCEPT ![i] = "done"]
    /\ c_sem' = c_sem + 1
    /\ UNCHANGED <<c_articles, c_max, c_requested, c_map, c_pc, c_out>>
    /\ OnlyContent

\* lines 116-118: every coroutine has returned; gather returns.
GatherReturns ==
    /\ c_pc = "gather"
    /\ \A i \in DOMAIN c_st : c_st[i] \in {"none", "done"}
    /\ c_map' = DictOfResults(c_articles, c_st, c_results)
    /\ c_pc' = "returned"
    /\ UNCHANGED <<c_articles, c_max, c_sem, c_st, c_results, c_requested, c_out>>
    /\ OnlyContent

\* enrich_articles_with_content(articles, content_results), lines 134-139.
Enrich ==
    /\ c_pc = "returned"
    /\ c_out' = [i \in DOMAIN c_articles |-> EnrichOne(c_articles[i], c_map)]
    /\ c_pc' = "enriched"
    /\ UNCHANGED <<c_articles, c_max, c_sem, c_st, c_results, c_requested, c_map>>
    /\ OnlyContent

ContentNext ==
    \/ \E i \in DOMAIN c_articles : Acquire(i)
    \/ \E i \in DOMAIN c_articles : ParseFails(i)
    \/ \E i \in DOMAIN c_articles : SkipDomain(i)
    \/ \E i \in DOMAIN c_articles : Request(i)
    \/ \E i \in DOMAIN c_articles, resp \in ContentResponses : Respond(i, resp)
    \/ GatherReturns
    \/ Enrich

(***************************************************************************)
(* models.py: the Article.domain property, applied to an article's url and *)
(* then to a url whose host is what it returned.                           *)
(***************************************************************************)
MaxLabels == 3      \* a host has at most MaxLabels labels

HostLabels == {"www", "wwwww", "w", "awww", "example", "com"}

RECURSIVE JoinDots(_)
JoinDots(labels) ==
    IF Len(labels) = 1 THEN labels[1]
    ELSE labels[1] \o "." \o JoinDots(Tail(labels))

Hosts == {JoinDots(l) : l \in SeqsUpTo(HostLabels, MaxLabels) \ {<<>>}}

\* Article urls: a host alone, with a path, with a port; a url urlparse
\* rejects; a url without scheme.
DomainUrls ==
    {"https://" \o h \o rest : h \in Hosts, rest \in {"", "/x?y=1", ":8080/x"}}
    \cup {"http://[::1/x", "example.com/x"}

\* The orchestrator, the adapters, the assembler, the enrichment and the
\* command do not run.
OnlyDomain ==
    UNCHANGED <<orch_vars, adapter_vars, digest_vars, content_vars, generate_vars,
                retention_vars>>

DomainInit ==
    /\ u_url \in DomainUrls
    /\ u_pc = "start"
    /\ u_domain = ""
    /\ u_again = ""

\* article.domain
DeriveDomain ==
    /\ u_pc = "start"
    /\ u_domain' = Domain(u_url)
    /\ u_pc' = "derived"
    /\ UNCHANGED <<u_url, u_again>>
    /\ OnlyDomain

\* Article(url="https://<domain>/").domain: the derivation once more.
DeriveAgain ==
    /\ u_pc = "derived"
    /\ u_again' = Domain("https://" \o u_domain \o "/")
    /\ u_pc' = "again"
    /\ UNCHANGED <<u_url, u_domain>>
    /\ OnlyDomain

DomainNext == DeriveDomain \/ DeriveAgain

(***************************************************************************)
(* main.py: the generate command: fetch, then preview or digest, EPUB,     *)
(* local save and cleanup, send.  Its options are recorded as they are     *)
(* read.                                                                   *)
(***************************************************************************)
\* line 84: total_articles
FetchedTotal ==
    Len(Concat([g \in DOMAIN articles_by_source |-> articles_by_source[g].articles]))

NeverNoArticles ==
    \* faulty variant: the zero-articles test is left out
    FALSE

\* line 91: if total_articles == 0
NoArticlesFound == FetchedTotal = 0

\* The adapters, the enrichment and the domain property do not run.
OnlyGenerate ==
    UNCHANGED <<orch_vars, adapter_vars, content_vars, domain_vars,
                retention_vars>>

\* line 81 onwards: fetch_all_sources is running.
GenerateInit ==
    /\ g_pc = "fetch" /\ g_opts = <<>> /\ g_calls = <<>> /\ g_exit = None

\* lines 87-89: --preview: the preview is shown and the command returns.
ShowPreview ==
    /\ g_pc = "fetch" /\ o_pc = "returned"
    /\ g_opts' = ("preview" :> TRUE)
    /\ g_calls' = Append(g_calls, "_show_preview")
    /\ g_exit' = "0"
    /\ g_pc' = "exit"
    /\ UNCHANGED digest_vars
    /\ OnlyGenerate

\* lines 91-93: no articles: the message, then typer.Exit(1).
NoArticles ==
    /\ g_pc = "fetch" /\ o_pc = "returned"
    /\ NoArticlesFound
    /\ g_opts' = ("preview" :> FALSE)
    /\ g_calls' = Append(g_calls, "print No articles found")
    /\ g_exit' = "1"
    /\ g_pc' = "exit"
    /\ UNCHANGED digest_vars
    /\ OnlyGenerate

\* lines 95-97: create_digest_from_articles(articles_by_source, ...) is
\* called.
CreateDigest ==
    /\ g_pc = "fetch" /\ o_pc = "returned"
    /\ ~NoArticlesFound
    /\ g_opts' = ("preview" :> FALSE)
    /\ g_calls' = Append(g_calls, "create_digest_from_articles")
    /\ g_pc' = "digest"
    /\ d_groups' = articles_by_source
    /\ d_pc' = "priority" /\ d_i' = 1 /\ sections' = <<>>
    /\ UNCHANGED g_exit
    /\ OnlyGenerate

\* lines 100-123: the EPUB is generated, to --output or to a temporary file
\* that is saved locally before old digests are cleaned up; an exception of
\* the generator ends the command.
Render(output, ok) ==
    /\ g_pc = "digest" /\ d_pc = "done"
    /\ g_opts' = g_opts @@ ("output" :> output)
    /\ g_calls' =
          g_calls \o <<"EPUBGenerator.generate">>
                  \o (IF ok /\ ~output
                      THEN <<"LocalDelivery.save", "LocalDelivery.cleanup_old">>
                      ELSE <<>>)
    /\ g_pc' = IF ok THEN "send" ELSE "exit"
    /\ g_exit' = IF ok THEN g_exit ELSE "1"
    /\ UNCHANGED digest_vars
    /\ OnlyGenerate

\* lines 126-136: --send: the EPUB is mailed; the command returns whether or
\* not the mail went out.
Send(send) ==
    /\ g_pc = "send"
    /\ g_opts' = g_opts @@ ("send" :> send)
    /\ g_calls' = IF send THEN Append(g_calls, "EmailDelivery.send") ELSE g_calls
    /\ g_exit' = "0"
    /\ g_pc' = "exit"
    /\ UNCHANGED digest_vars
    /\ OnlyGenerate

GenerateNext ==
    \/ OrchNext
    \/ ShowPreview
    \/ NoArticles
    \/ CreateDigest
    \/ DigestNext
    \/ \E output, ok \in BOOLEAN : Render(output, ok)
    \/ \E send \in BOOLEAN : Send(send)

(***************************************************************************)
(* delivery/local.py: save and cleanup_old, as generate calls them without *)
(* --output (main.py:106-120).  The clock moves on between the calls.      *)
(***************************************************************************)
MaxDay == 3         \* the clock and the dated files range over days 1..MaxDay
MaxKeep == 2        \* keep_days ranges over 0..MaxKeep

\* strftime("%Y-%m-%d") of a day of January 2024.
DateStr(day) == "2024-01-0" \o ToString(day)

\* line 30
DestName(day) == "morning-byte-" \o DateStr(day) \o ".epub"

\* What output_dir may hold before the run: earlier digests, a file of
\* another kind, a file the pattern matches whose stem holds no date, and
\* a file whose name repeats the prefix.
DirNames ==
    {DestName(d) : d \in 1..MaxDay}
    \cup {"notes.txt", "morning-byte-draft.epub",
          "morning-byte-morning-byte-2024-01-01.epub"}

\* line 50: glob("morning-byte-*.epub")
Globbed(name) ==
    /\ Len(name) >= Len("morning-byte-") + Len(".epub")
    /\ StartsWith(name, "morning-byte-") /\ EndsWith(name, ".epub")

\* Path.stem of a name ending in .epub
Stem(name) == SubSeq(name, 1, Len(name) - Len(".epub"))

\* line 54: datetime.strptime(date_str, "%Y-%m-%d"): the day, at midnight;
\* 0 stands for ValueError.
Strptime(date_str) ==
    IF \E d \in 1..9 : date_str = DateStr(d)
    THEN CHOOSE d \in 1..9 : date_str = DateStr(d)
    ELSE 0

\* lines 53-54 for a file name
FileDate(name) == Strptime(Remove(Stem(name), "morning-byte-"))

\* Lines 50-54 for each name the directory may hold.
NameTests ==
    [f \in DirNames \cup {DestName(d) : d \in 1..(MaxDay + 1)} |->
        [globbed |-> Globbed(f), day |-> IF Globbed(f) THEN FileDate(f) ELSE 0]]

\* line 47: datetime.now() - timedelta(days=keep_days)
Cutoff(now, keep_days) == [day |-> now.day - keep_days, tod |-> now.tod]

\* line 56: file_date < cutoff, file_date being midnight of its day.
Before(file_day, cutoff) ==
    file_day < cutoff.day \/ (file_day = cutoff.day /\ 0 < cutoff.tod)

\* lines 50-56: the file is matched, its date parses and is before the
\* cutoff.
Expired(name, now, keep_days) ==
    /\ NameTests[name].globbed
    /\ NameTests[name].day # 0
    /\ Before(NameTests[name].day, Cutoff(now, keep_days))

OnlyRetention ==
    UNCHANGED <<orch_vars, adapter_vars, digest_vars, content_vars,
                generate_vars, domain_vars>>

\* main.py:106-112: the EPUB has been generated into a temporary file.
RetentionInit ==
    /\ r_files \in SUBSET DirNames
    /\ r_now \in [day : 1..MaxDay, tod : {0, 1}]
    /\ r_keep \in 0..MaxKeep
    /\ r_pc = "save"
    /\ r_saved = ""
    /\ r_deleted = {}
    /\ r_before = r_files

\* Time passes before save() or between save() and cleanup_old().
Tick ==
    /\ r_pc \in {"save", "cleanup"}
    /\ \/ r_now.tod = 0 /\ r_now' = [r_now EXCEPT !.tod = 1]
       \/ r_now.tod = 1 /\ r_now.day < MaxDay
          /\ r_now' = [day |-> r_now.day + 1, tod |-> 0]
    /\ UNCHANGED <<r_files, r_keep, r_pc, r_saved, r_deleted, r_before>>
    /\ OnlyRetention

\* save, lines 26-36 (main.py:115): the file is copied under today's name.
Save ==
    /\ r_pc = "save"
    /\ r_saved' = DestName(r_now.day)
    /\ r_files' = r_files \cup {DestName(r_now.day)}
    /\ r_pc' = "cleanup"
    /\ UNCHANGED <<r_now, r_keep, r_deleted, r_before>>
    /\ OnlyRetention

\* cleanup_old, lines 44-62 (main.py:119): every expired file is unlinked,
\* except those whose unlink raises OSError.
CleanupOld(failing) ==
    /\ r_pc = "cleanup"
    /\ LET expired == {f \in r_files : Expired(f, r_now, r_keep)} IN
       /\ failing \subseteq expired
       /\ Cardinality(failing) <= 1
       /\ r_deleted' = expired \ failing
       /\ r_files' = r_files \ (expired \ failing)
    /\ r_pc' = "done"
    /\ UNCHANGED <<r_now, r_keep, r_saved, r_before>>
    /\ OnlyRetention

RetentionNext ==
    \/ Tick
    \/ Save
    \/ \E failing \in SUBSET r_files : CleanupOld(failing)

RetentionIdle ==
    /\ r_files = {} /\ r_now = [day |-> 0, tod |-> 0] /\ r_keep = 0
    /\ r_pc = "idle" /\ r_saved = "" /\ r_deleted = {} /\ r_before = {}

OrchIdle ==
    /\ config = <<>> /\ o_pc = "idle" /\ est = <<>> /\ articles_by_source = <<>>
    /\ warnings = <<>> /\ client = <<>> /\ closes = <<>> /\ inflight = {}
    /\ returned = <<>>

DigestIdle ==
    /\ d_groups = <<>> /\ d_pc = "idle" /\ d_i = 0 /\ sections = <<>>

AdapterIdle ==
    /\ a_name = "none" /\ a_cfg = SourceConfig(0, <<>>, <<>>, <<>>)
    /\ a_pc = "idle" /\ a_tasks = <<>> /\ a_out = NotYet /\ a_first = NoRequest

ContentIdle ==
    /\ c_articles = <<>> /\ c_max = 0 /\ c_sem = 0 /\ c_st = <<>>
    /\ c_results = <<>> /\ c_requested = {} /\ c_map = <<>> /\ c_pc = "idle"
    /\ c_out = <<>>

GenerateIdle ==
    /\ g_pc = "idle" /\ g_opts = <<>> /\ g_calls = <<>> /\ g_exit = None

DomainIdle ==
    /\ u_url = "" /\ u_pc = "idle" /\ u_domain = "" /\ u_again = ""

(***************************************************************************)
(* The specifications.                                                     *)
(***************************************************************************)
\* fetch_all_sources
Init ==
    /\ OrchInit /\ AdapterIdle /\ DigestIdle
    /\ ContentIdle /\ GenerateIdle /\ DomainIdle /\ RetentionIdle
Spec == Init /\ [][OrchNext]_vars

\* create_digest_from_articles
InitDigest ==
    /\ DigestInit /\ OrchIdle /\ AdapterIdle
    /\ ContentIdle /\ GenerateIdle /\ DomainIdle /\ RetentionIdle
SpecDigest == InitDigest /\ [][DigestNext]_vars

\* one adapter's fetch()
InitAdapter ==
    /\ AdapterInit /\ OrchIdle /\ DigestIdle
    /\ ContentIdle /\ GenerateIdle /\ DomainIdle /\ RetentionIdle
SpecAdapter == InitAdapter /\ [][AdapterNext]_vars

\* RedditSource.fetch() alone
InitReddit ==
    /\ AdapterInit /\ a_name = "reddit" /\ OrchIdle /\ DigestIdle
    /\ ContentIdle /\ GenerateIdle /\ DomainIdle /\ RetentionIdle
RedditNext ==
    \/ NothingConfigured
    \/ Gather
    \/ \E i \in DOMAIN a_tasks : \E resp \in RedditResponses : Complete(i, resp)
    \/ Collected
SpecReddit == InitReddit /\ [][RedditNext]_vars

\* DevToSource.fetch() alone
InitDevTo ==
    /\ AdapterInit /\ a_name = "devto" /\ OrchIdle /\ DigestIdle
    /\ ContentIdle /\ GenerateIdle /\ DomainIdle /\ RetentionIdle
DevToNext ==
    \/ \E resp \in DevToResponses : SingleRequest(resp)
    \/ Gather
    \/ \E i \in DOMAIN a_tasks : \E resp \in DevToResponses : Complete(i, resp)
    \/ Collected
SpecDevTo == InitDevTo /\ [][DevToNext]_vars

\* RSSSource.fetch() alone
InitRSS ==
    /\ AdapterInit /\ a_name = "rss" /\ OrchIdle /\ DigestIdle
    /\ ContentIdle /\ GenerateIdle /\ DomainIdle /\ RetentionIdle
RSSNext ==
    \/ NothingConfigured
    \/ Gather
    \/ \E i \in DOMAIN a_tasks :
          \E resp \in SubResponses("rss", a_tasks[i].arg) : Complete(i, resp)
    \/ Collected
SpecRSS == InitRSS /\ [][RSSNext]_vars

\* fetch_articles_content, then enrich_articles_with_content
InitContent ==
    /\ ContentInit /\ OrchIdle /\ AdapterIdle /\ DigestIdle
    /\ GenerateIdle /\ DomainIdle /\ RetentionIdle
SpecContent == InitContent /\ [][ContentNext]_vars

\* the same under the event loop's scheduling: a coroutine that can go on
\* does go on, and a request ends (by its timeout at the latest).
SpecContentLive == SpecContent /\ WF_vars(ContentNext)

\* the generate command
InitGenerate ==
    /\ OrchInit /\ GenerateInit /\ DigestIdle
    /\ AdapterIdle /\ ContentIdle /\ DomainIdle /\ RetentionIdle
SpecGenerate == InitGenerate /\ [][GenerateNext]_vars

\* Article.domain
InitDomain ==
    /\ DomainInit /\ OrchIdle /\ AdapterIdle /\ DigestIdle
    /\ ContentIdle /\ GenerateIdle /\ RetentionIdle
SpecDomain == InitDomain /\ [][DomainNext]_vars

\* save, then cleanup_old
InitRetention ==
    /\ RetentionInit /\ OrchIdle /\ AdapterIdle /\ DigestIdle
    /\ ContentIdle /\ GenerateIdle /\ DomainIdle
SpecRetention == InitRetention /\ [][RetentionNext]_vars


(***************************************************************************)
(* Properties of fetch_all_sources (Spec).                                 *)
(***************************************************************************)
Returned == o_pc = "returned"

Registered(i) == config[i].name \in DOMAIN SOURCES

\* The lists the entries in S got back from fetch(), one after the other in
\* configuration order.
Flat(S) ==
    Concat([i \in DOMAIN config |->
              IF i \in S THEN returned[i].articles ELSE <<>>])

FirstIndex(flat, key) ==
    CHOOSE k \in DOMAIN flat :
        flat[k].source = key /\ \A m \in 1..(k - 1) : flat[m].source # key

\* groups is the regrouping of flat by source label: one non-empty group
\* per label, in the order the labels first appear, each group holding its
\* label's articles in the order of flat.
GroupedAs(groups, flat) ==
    /\ \A g, h \in DOMAIN groups : g # h => groups[g].key # groups[h].key
    /\ \A k \in DOMAIN flat : \E g \in DOMAIN groups : groups[g].key = flat[k].source
    /\ \A g \in DOMAIN groups :
           /\ groups[g].articles # <<>>
           /\ groups[g].articles =
                  SelectSeq(flat, LAMBDA a : a.source = groups[g].key)
    /\ \A g, h \in DOMAIN groups :
           g < h => FirstIndex(flat, groups[g].key) < FirstIndex(flat, groups[h].key)

Count(seq, x) == Cardinality({k \in DOMAIN seq : seq[k] = x})

GroupedTotal ==
    Len(Concat([g \in DOMAIN articles_by_source |-> articles_by_source[g].articles]))

\* Entry i is an enabled registered source whose adapter failed: building
\* it, its fetch() or closing its client raised.
SetupRaised(i) == est[i] = "done" /\ client[i] = "none"
FetchRaised(i) == returned[i].raised
TeardownRaised(i) == client[i] = "close_failed"

Faulty(i) ==
    /\ config[i].enabled /\ Registered(i)
    /\ SetupRaised(i) \/ FetchRaised(i) \/ TeardownRaised(i)

\* C1: fault isolation.  When an adapter's fetch (or its client setup or
\* teardown) raises, fetch_all_sources still returns, the result is exactly
\* the grouping of what the other adapters returned, the failing source
\* contributes no article, and one warning naming it is printed (none for
\* the others).
C1_FaultIsolation ==
    /\ o_pc # "crashed"
    /\ Returned =>
         /\ GroupedAs(articles_by_source,
                      Flat({i \in DOMAIN config : ~Faulty(i)}))
         /\ \A i \in DOMAIN config :
                Count(warnings, config[i].name) = IF Faulty(i) THEN 1 ELSE 0

C5_DisabledSkipped ==
    /\ \A i \in DOMAIN config :
           ~config[i].enabled =>
               /\ est[i] \in {"todo", "done"}
               /\ client[i] = "none" /\ closes[i] = 0
               /\ i \notin inflight
               /\ ~returned[i].called
               /\ Count(warnings, config[i].name) = 0
    /\ GroupedTotal =
           Len(Flat({i \in DOMAIN config : config[i].enabled /\ ~returned[i].raised}))

\* C5's case: the run returned with a disabled registered entry skipped and
\* articles of another entry grouped.
C5_Witness ==
    /\ Returned /\ articles_by_source # <<>>
    /\ \E i \in DOMAIN config :
           ~config[i].enabled /\ Registered(i) /\ est[i] = "done"

\* C6: an enabled entry whose name is not in SOURCES is skipped silently:
\* nothing is raised, nothing is built or fetched for it, no warning names
\* it, and the result is the grouping of what the registered entries
\* returned, as if the entry were absent.
C6_UnknownSkipped ==
    /\ o_pc # "crashed"
    /\ \A i \in DOMAIN config :
           (config[i].enabled /\ ~Registered(i)) =>
               /\ est[i] \in {"todo", "done"}
               /\ client[i] = "none" /\ closes[i] = 0
               /\ i \notin inflight
               /\ ~returned[i].called
               /\ Count(warnings, config[i].name) = 0
    /\ GroupedAs(articles_by_source,
                 Flat({i \in DOMAIN config : Registered(i)}))

\* C6's case: the run returned, an enabled unknown entry came first and a
\* later entry's articles are in the result.
C6_Witness ==
    /\ Returned /\ articles_by_source # <<>>
    /\ \E i, j \in DOMAIN config :
           /\ i < j /\ config[i].enabled /\ ~Registered(i) /\ est[i] = "done"
           /\ returned[j].articles # <<>>

\* C7: the articles are grouped by their own source field, not by the
\* configured name: every article of group k has source k, the keys are in
\* order of first appearance, and a group keeps the order in which the
\* adapters returned its articles.
C7_GroupedBySourceField ==
    /\ \A g \in DOMAIN articles_by_source :
           \A k \in DOMAIN articles_by_source[g].articles :
               articles_by_source[g].articles[k].source = articles_by_source[g].key
    /\ GroupedAs(articles_by_source, Flat(DOMAIN config))

\* C7's case: the run returned three or more groups, none of them named
\* after a configured source, one of them with several articles.
C7_Witness ==
    /\ Returned /\ Len(articles_by_source) >= 3
    /\ \E g \in DOMAIN articles_by_source : Len(articles_by_source[g].articles) >= 2
    /\ \A g \in DOMAIN articles_by_source, i \in DOMAIN config :
           articles_by_source[g].key # config[i].name

\* The entries whose adapter was built and whose fetch returned a list.
FetchReturned ==
    {i \in DOMAIN config :
        /\ config[i].enabled /\ Registered(i)
        /\ returned[i].called /\ ~returned[i].raised}

AllGrouped ==
    Concat([g \in DOMAIN articles_by_source |-> articles_by_source[g].articles])

\* C26: conservation in the fan-in.  When fetch_all_sources has returned,
\* every article occurs in the groups as often as in the lists returned by
\* the enabled registered adapters whose fetch did not raise; each sits in
\* the group of its own label, labels are not repeated among the keys, and
\* no key maps to an empty list.
C26_FanInConserves ==
    Returned =>
        /\ \A x \in Range(AllGrouped) \cup Range(Flat(FetchReturned)) :
               Count(AllGrouped, x) = Count(Flat(FetchReturned), x)
        /\ \A g, h \in DOMAIN articles_by_source :
               g # h => articles_by_source[g].key # articles_by_source[h].key
        /\ \A g \in DOMAIN articles_by_source :
               /\ articles_by_source[g].articles # <<>>
               /\ \A k \in DOMAIN articles_by_source[g].articles :
                      articles_by_source[g].articles[k].source
                          = articles_by_source[g].key

\* C26's case: two configured sources returned articles under one label,
\* which are merged into one group.
C26_Witness ==
    /\ Returned
    /\ \E i, j \in FetchReturned :
           /\ i # j
           /\ \E a \in Range(returned[i].articles), b \in Range(returned[j].articles) :
                  /\ a.source = b.source
                  /\ \E g \in DOMAIN articles_by_source :
                         /\ a \in Range(articles_by_source[g].articles)
                         /\ b \in Range(articles_by_source[g].articles)
                         /\ Len(articles_by_source[g].articles) >= 3

(***************************************************************************)
(* Properties of create_digest_from_articles (SpecDigest).                 *)
(***************************************************************************)
DigestDone == d_pc = "done"

Titles(secs) == [k \in DOMAIN secs |-> secs[k].title]

\* Where a label's section belongs: the three priority labels first, then
\* the other labels by their position in the input mapping.
SectionRank(title) ==
    CASE title = "Hacker News" -> 1
      [] title = "Lobsters" -> 2
      [] title = "Dev.to" -> 3
      [] OTHER -> 3 + (CHOOSE g \in DOMAIN d_groups : d_groups[g].key = title)

\* C9: the sections are the non-empty groups: first "Hacker News", then
\* "Lobsters", then "Dev.to" (each if present and non-empty), then every
\* other non-empty group in the mapping's order; an empty group gives no
\* section.
C9_SectionOrder ==
    DigestDone =>
        /\ \A k \in DOMAIN sections :
               /\ sections[k].articles # <<>>
               /\ HasKey(d_groups, sections[k].title)
               /\ sections[k].articles = Lookup(d_groups, sections[k].title)
        /\ \A g \in DOMAIN d_groups :
               d_groups[g].articles # <<>> =>
                   Count(Titles(sections), d_groups[g].key) = 1
        /\ \A k, m \in DOMAIN sections :
               k < m => SectionRank(sections[k].title) < SectionRank(sections[m].title)

\* C9's case: "Lobsters" precedes "Hacker News" in the mapping, another
\* label and an empty group are there too, and the digest opens with
\* "Hacker News" then "Lobsters".
C9_Witness ==
    /\ DigestDone /\ Len(sections) >= 3
    /\ sections[1].title = "Hacker News" /\ sections[2].title = "Lobsters"
    /\ \E g, h \in DOMAIN d_groups :
           g < h /\ d_groups[g].key = "Lobsters" /\ d_groups[h].key = "Hacker News"
    /\ \E g \in DOMAIN d_groups : d_groups[g].articles = <<>>

(***************************************************************************)
(* Properties of the adapters (SpecAdapter).                               *)
(***************************************************************************)
AdapterDone == a_pc = "done"

FanOutAdapter == a_name \in {"reddit", "devto", "rss"} /\ a_tasks # <<>>

TaskFailed(i) == a_tasks[i].resp.kind \in FailKinds

SomeRequestFailed ==
    \/ a_first.kind \in FailKinds
    \/ \E i \in DOMAIN a_tasks : TaskFailed(i)

\* The articles the sub-requests that did not fail handed back, in task order.
Candidates ==
    Concat([i \in DOMAIN a_tasks |->
              IF ~TaskFailed(i) /\ a_tasks[i].result.tag = "list"
              THEN a_tasks[i].result.val ELSE <<>>])

Urls(articles) == {articles[i].url : i \in DOMAIN articles}

\* The key the adapter ranks by.
RankKey(a) == IF a_name = "rss" THEN a.published_at.t ELSE a.score

\* C2: every adapter's fetch() returns a list and never raises when one of
\* its HTTP requests fails (error status, timeout, connection failure,
\* malformed payload), the first or only request included.
C2_FetchNeverRaisesOnFailedRequest ==
    (AdapterDone /\ SomeRequestFailed) => ~a_out.raised

\* C3: in the fan-out adapters (Reddit, Dev.to, RSS), whenever some of the
\* concurrent sub-requests fail, each failed one contributes an empty list
\* and the articles of the successful ones make up the merged, sorted and
\* capped result, in whatever order the sub-requests completed: fetch
\* returns, its result has min(number of candidates, max_items) articles
\* (candidates counted per url for Dev.to), all of them candidates, and no
\* candidate left out ranks above one that was kept.
C3_SubRequestIsolation ==
    (AdapterDone /\ FanOutAdapter /\ \E i \in DOMAIN a_tasks : TaskFailed(i)) =>
        LET out == a_out.articles
            n == IF a_name = "devto" THEN Cardinality(Urls(Candidates))
                 ELSE Len(Candidates)
        IN  /\ ~a_out.raised
            /\ \A i \in DOMAIN a_tasks :
                   TaskFailed(i) => a_tasks[i].result = ListResult(<<>>)
            /\ Len(out) = Min(n, a_cfg.max_items)
            /\ \A k \in DOMAIN out : out[k] \in Range(Candidates)
            /\ \A c \in Range(Candidates) :
                   c.url \notin Urls(out) =>
                       \A k \in DOMAIN out : RankKey(out[k]) >= RankKey(c)

\* C8: every Article an adapter returns has a non-empty title and a
\* non-empty url; an item lacking either is dropped.
C8_TitleAndUrlNonEmpty ==
    AdapterDone =>
        \A k \in DOMAIN a_out.articles :
            Truthy(a_out.articles[k].title) /\ Truthy(a_out.articles[k].url)

\* C10: Dev.to with tags configured: the merged result holds each url once,
\* the copy kept for a url has the highest score among that url's copies,
\* the result is in descending score order, every url of the per-tag results
\* is there unless the cap cut it, and the length is at most max_items.
C10_DevToDedup ==
    (AdapterDone /\ a_name = "devto" /\ a_cfg.tags # <<>>) =>
        LET out == a_out.articles IN
        /\ ~a_out.raised
        /\ \A i, j \in DOMAIN out : i # j => out[i].url # out[j].url
        /\ \A i \in DOMAIN out :
               /\ out[i] \in Range(Candidates)
               /\ \A c \in Range(Candidates) :
                      c.url = out[i].url => c.score <= out[i].score
        /\ \A i, j \in DOMAIN out : i < j => out[i].score >= out[j].score
        /\ Len(out) = Min(Cardinality(Urls(Candidates)), a_cfg.max_items)
        /\ Len(out) <= a_cfg.max_items

\* C10's case: two tags answered with copies of one url that differ in
\* score, the lower one fetched first, and the result is not empty.
C10_Witness ==
    /\ AdapterDone /\ a_name = "devto" /\ Len(a_tasks) >= 2
    /\ a_out.articles # <<>>
    /\ \E i, j \in DOMAIN Candidates :
           /\ i < j
           /\ Candidates[i].url = Candidates[j].url
           /\ Candidates[i].score < Candidates[j].score
    /\ Cardinality(Urls(Candidates)) > a_cfg.max_items

\* The copies of url among the candidates that have the url's top score.
TopCopies(url) ==
    {k \in DOMAIN Candidates :
        /\ Candidates[k].url = url
        /\ \A m \in DOMAIN Candidates :
               Candidates[m].url = url => Candidates[m].score <= Candidates[k].score}

\* C28: the Dev.to tie-break.  With tags configured, the copy kept for a
\* url is the first of its top-scored copies in tag order (and in response
\* order within a tag): among copies with identical scores the one from
\* the tag listed earlier in config.tags wins, in whatever order the tag
\* requests completed.
C28_DevToTieBreak ==
    (AdapterDone /\ a_name = "devto" /\ a_cfg.tags # <<>>) =>
        \A k \in DOMAIN a_out.articles :
            LET x == a_out.articles[k]
                first == CHOOSE c \in TopCopies(x.url) :
                             \A d \in TopCopies(x.url) : c <= d
            IN  /\ x = Candidates[first]
                /\ \E i \in DOMAIN a_tasks :
                       /\ ~TaskFailed(i)
                       /\ x \in Range(a_tasks[i].result.val)
                       /\ \A j \in 1..(i - 1) :
                              TaskFailed(j) \/
                              \A y \in Range(a_tasks[j].result.val) :
                                  y.url = x.url => y.score < x.score

\* C28's case: two tags answered with different copies of one url that
\* have the same score, no copy scoring higher; the earlier tag's copy is
\* in the result and the later tag's is not.
C28_Witness ==
    /\ AdapterDone /\ a_name = "devto" /\ Len(a_tasks) >= 2
    /\ ~TaskFailed(1) /\ ~TaskFailed(2)
    /\ \E x \in Range(a_tasks[1].result.val), y \in Range(a_tasks[2].result.val) :
           /\ x.url = y.url /\ x.score = y.score /\ x.title # y.title
           /\ \A c \in Range(Candidates) : c.url = x.url => c.score <= x.score
           /\ x \in Range(a_out.articles)
           /\ y \notin Range(a_out.articles)
           /\ y \notin Range(a_tasks[1].result.val)

\* The posts of a listing that are not stickied (reddit.py:63-64).
NotStickied(post_data) == ~Get(post_data, "stickied", FALSE)

\* How many non-stickied posts the subreddits that answered returned.
RedditTotalItems ==
    Len(Concat([i \in DOMAIN a_tasks |->
                  IF TaskFailed(i) THEN <<>>
                  ELSE SelectSeq(a_tasks[i].resp.body, NotStickied)]))

C22_ClientReleasedOnce ==
    \A i \in DOMAIN config :
        /\ closes[i] <= 1
        /\ closes[i] = 1 => returned[i].called /\ i \notin inflight
        /\ o_pc = "returned" =>
               /\ client[i] # "open"
               /\ returned[i].called => closes[i] = 1
               /\ closes[i] = (IF client[i] = "none" THEN 0 ELSE 1)

\* C22's case: the orchestrator has returned after two adapters were
\* built, one whose fetch raised and one whose fetch returned articles, and
\* each client was closed once.
C22_Witness ==
    /\ o_pc = "returned"
    /\ \E i, j \in DOMAIN config :
           /\ returned[i].called /\ returned[i].raised
           /\ returned[j].called /\ ~returned[j].raised
           /\ returned[j].articles # <<>>
           /\ closes[i] = 1 /\ closes[j] = 1
           /\ client[i] = "closed" /\ client[j] = "closed"

\* C27: every adapter's fetch returns at most config.max_items articles,
\* for every max_items >= 0 and whatever the servers answer, the Dev.to
\* adapter without tags included when the server answers with more items
\* than the per_page it was asked for.
C27_AtMostMaxItems ==
    AdapterDone => Len(a_out.articles) <= a_cfg.max_items

\* C27 for the adapters other than Dev.to without tags.
C27_AtMostMaxItemsCapped ==
    (AdapterDone /\ ~(a_name = "devto" /\ a_cfg.tags = <<>>)) =>
        Len(a_out.articles) <= a_cfg.max_items

\* C21: an item with a missing field, a field of an unexpected type or an
\* unparseable date is still emitted, with defaults, and costs no other
\* item of its response: every response that arrived yields one article
\* per item it holds (per non-stickied post for Reddit, for the first
\* max_items stories for Lobsters, for the first 10 entries of a feed).
C21_ShapeFailureKeepsItems ==
    AdapterDone =>
        /\ (a_name = "lobsters" /\ ~Failed(a_first)) =>
               Len(a_out.articles) = Min(Len(a_first.body), a_cfg.max_items)
        /\ (a_name = "devto" /\ a_cfg.tags = <<>> /\ ~Failed(a_first)) =>
               Len(a_out.articles) = Len(a_first.body)
        /\ FanOutAdapter =>
               \A i \in DOMAIN a_tasks :
                   a_tasks[i].resp.kind = "ok" =>
                       Len(a_tasks[i].result.val) =
                           CASE a_name = "reddit" ->
                                  Len(SelectSeq(a_tasks[i].resp.body, NotStickied))
                             [] a_name = "devto" -> Len(a_tasks[i].resp.body)
                             [] a_name = "rss" ->
                                  Min(Len(a_tasks[i].resp.body), RSSPerFeed)

HNStoryTasks ==
    {i \in DOMAIN a_tasks :
        /\ ~TaskFailed(i)
        /\ a_tasks[i].resp.body # <<>>
        /\ Get(a_tasks[i].resp.body, "type", "") = "story"}

\* The same-site page of an identifier.
HNSameSite(id) == "https://news.ycombinator.com/item?id=" \o ToString(id)

\* C20: the Hacker News adapter asks for the first max_items ranked
\* identifiers only; an item that is not a story, or whose detail request
\* failed, is discarded; every story is returned once, a story with no
\* external link (no url field, or an empty one) with its same-site
\* permalink as URL; the returned list is in descending score order.
C20_HackerNewsStories ==
    (AdapterDone /\ a_name = "hackernews" /\ ~a_out.raised) =>
        LET out == a_out.articles IN
        /\ [i \in DOMAIN a_tasks |-> a_tasks[i].arg]
               = Take(a_first.body, a_cfg.max_items)
        /\ Len(out) = Cardinality(HNStoryTasks)
        /\ \A i \in DOMAIN a_tasks :
               i \in HNStoryTasks <=>
                   \E k \in DOMAIN out :
                       out[k].comments_url = HNSameSite(a_tasks[i].arg)
        /\ \A i \in HNStoryTasks : \A k \in DOMAIN out :
               out[k].comments_url = HNSameSite(a_tasks[i].arg) =>
                   LET link == Get(a_tasks[i].resp.body, "url", "") IN
                   out[k].url = IF link = "" THEN HNSameSite(a_tasks[i].arg)
                                ELSE link
        /\ \A i, j \in DOMAIN out : i < j => out[i].score >= out[j].score

\* C20 for the stories whose item has no url field at all: the same
\* statement, leaving aside the URL of a story whose url field is empty.
C20_HackerNewsStoriesUrlAbsent ==
    (AdapterDone /\ a_name = "hackernews" /\ ~a_out.raised) =>
        LET out == a_out.articles IN
        /\ [i \in DOMAIN a_tasks |-> a_tasks[i].arg]
               = Take(a_first.body, a_cfg.max_items)
        /\ Len(out) = Cardinality(HNStoryTasks)
        /\ \A i \in DOMAIN a_tasks :
               i \in HNStoryTasks <=>
                   \E k \in DOMAIN out :
                       out[k].comments_url = HNSameSite(a_tasks[i].arg)
        /\ \A i \in HNStoryTasks : \A k \in DOMAIN out :
               out[k].comments_url = HNSameSite(a_tasks[i].arg) =>
                   LET body == a_tasks[i].resp.body IN
                   out[k].url = IF "url" \in DOMAIN body THEN body.url
                                ELSE HNSameSite(a_tasks[i].arg)
        /\ \A i, j \in DOMAIN out : i < j => out[i].score >= out[j].score

\* The articles of the feeds that answered, split by whether one of the
\* entry's date fields could be resolved (rss.py:64-71).
RSSArticlesWhere(undated) ==
    UNION {{RSSEntry(Get(a_tasks[i].arg, "name", RSSFeedUrl(a_tasks[i].arg)),
                     a_tasks[i].resp.body[k])
               : k \in {k \in 1..Min(Len(a_tasks[i].resp.body), RSSPerFeed) :
                          (RSSPublished(a_tasks[i].resp.body[k]) = NoneDate)
                              = undated}}
              : i \in {i \in DOMAIN a_tasks : a_tasks[i].resp.kind = "ok"}}

\* C12: RSS returns at most max_items articles in descending publication
\* time, and an entry without a resolvable date sorts as the oldest: it
\* comes after every dated entry, and none is kept while a dated one is
\* cut by the cap.
C12_RSSUndatedSortOldest ==
    (AdapterDone /\ a_name = "rss") =>
        LET out == a_out.articles
            dated == RSSArticlesWhere(FALSE)
            undated == RSSArticlesWhere(TRUE)
        IN  /\ ~a_out.raised
            /\ Len(out) <= a_cfg.max_items
            /\ \A k, m \in DOMAIN out :
                   (k < m /\ out[k] \in dated /\ out[m] \in dated) =>
                       out[k].published_at.t >= out[m].published_at.t
            /\ \A k, m \in DOMAIN out :
                   k < m => ~(out[k] \in undated /\ out[m] \in dated)
            /\ (\E k \in DOMAIN out : out[k] \in undated) =>
                   \A x \in dated : \E k \in DOMAIN out : out[k] = x

DateFields == <<"published", "updated", "created">>

\* The places in DateFields of the entry's fields that are present and parse.
Resolvable(entry) ==
    {k \in DOMAIN DateFields :
        /\ DateFields[k] \in DOMAIN entry
        /\ ~ParseRaises(entry[DateFields[k]])}

\* C25: RSS date resolution.  A feed that answered gives one article for
\* each of its first 10 entries and none for the others; the article's
\* timestamp is the parse of the first of published, updated, created that
\* is present and parses, a field that does not parse being passed over;
\* when none resolves the entry is still emitted (with the construction
\* time as timestamp).
C25_RSSDateResolution ==
    (AdapterDone /\ a_name = "rss") =>
        \A i \in DOMAIN a_tasks :
            a_tasks[i].resp.kind = "ok" =>
                LET entries == a_tasks[i].resp.body
                    arts == a_tasks[i].result.val
                IN  /\ Len(arts) = Min(Len(entries), 10)
                    /\ \A k \in DOMAIN arts :
                           /\ arts[k].url = Get(entries[k], "link", "")
                           /\ arts[k].published_at =
                                  IF Resolvable(entries[k]) = {} THEN Now
                                  ELSE LET first == CHOOSE f \in Resolvable(entries[k]) :
                                               \A g \in Resolvable(entries[k]) : f <= g
                                       IN  entries[k][DateFields[first]]

\* C25's case: a feed answered with 11 entries, among them one whose
\* created date is used after two dates that did not parse and one none
\* of whose dates parses; 10 articles came of it, those two among them.
C25_Witness ==
    /\ AdapterDone /\ a_name = "rss"
    /\ \E i \in DOMAIN a_tasks :
           /\ a_tasks[i].resp.kind = "ok"
           /\ Len(a_tasks[i].resp.body) = 11
           /\ Len(a_tasks[i].result.val) = 10
           /\ \E k \in DOMAIN a_tasks[i].result.val :
                  /\ "published" \in DOMAIN a_tasks[i].resp.body[k]
                  /\ ParseRaises(a_tasks[i].resp.body[k].published)
                  /\ "created" \in DOMAIN a_tasks[i].resp.body[k]
                  /\ a_tasks[i].result.val[k].published_at
                         = a_tasks[i].resp.body[k].created
           /\ \E k \in DOMAIN a_tasks[i].result.val :
                  /\ Resolvable(a_tasks[i].resp.body[k]) = {}
                  /\ "published" \in DOMAIN a_tasks[i].resp.body[k]
                  /\ a_tasks[i].result.val[k].published_at = Now

(***************************************************************************)
(* Properties of fetch_articles_content and enrich_articles_with_content   *)
(* (SpecContent, SpecContentLive).                                         *)
(***************************************************************************)
\* The coroutines inside `async with semaphore`, that is, whose
\* fetch_content call is in flight.
InFlight == {i \in DOMAIN c_st : c_st[i] \in {"acquired", "requesting"}}

GatherReturned ==
    c_pc \in {"returned", "enriched"} /\ \A i \in DOMAIN c_st : c_st[i] \in {"none", "done"}

\* A url's host: its netloc without userinfo and port.
HostOf(url) ==
    LET n == Netloc(url)
        h == SubSeq(n, Find(n, "@", 1) + 1, Len(n))
        colon == Find(h, ":", 1)
    IN  IF colon = 0 THEN h ELSE SubSeq(h, 1, colon - 1)

\* A host with one leading "www." stripped.
StripLeadingWww(h) == IF StartsWith(h, "www.") THEN SubSeq(h, 5, Len(h)) ELSE h

\* The urls of the articles whose host, "www." stripped, is deny-listed.
DeniedUrls ==
    {u \in DOMAIN UrlTests :
        ~UrlTests[u].raises /\ StripLeadingWww(HostOf(u)) \in SKIP_DOMAINS}

\* C13: for a url whose host, after stripping "www.", is in SKIP_DOMAINS,
\* fetch_content makes no network call and returns success=False, empty
\* content and the reason "Domain skipped".
C13_DeniedHostNeverRequested ==
    \A i \in DOMAIN c_articles :
        c_articles[i].url \in DeniedUrls =>
            /\ i \notin c_requested
            /\ c_st[i] = "done" =>
                   /\ ~c_results[i].success
                   /\ c_results[i].content = ""
                   /\ c_results[i].error = "Domain skipped"

\* C14: at most max_concurrent fetch_content calls are in flight at any
\* time, and every coroutine eventually runs and completes, so that gather
\* returns.
C14_BoundedAndCompletes ==
    [](Cardinality(InFlight) <= c_max) /\ <>GatherReturned

\* C14's case: max_concurrent (two or more) requests are in flight and
\* another coroutine waits for the semaphore.
C14_Witness ==
    /\ c_max >= 2
    /\ Cardinality({i \in DOMAIN c_st : c_st[i] = "requesting"}) = c_max
    /\ \E i \in DOMAIN c_st : c_st[i] = "waiting"

\* The result enrich looks up for an article, if there is one.
HasResult(i) == c_articles[i].url \in DOMAIN c_map

\* The coroutines of fetch_articles_content: each one calls fetch_content
\* once with its article's url.
Coroutines == {i \in DOMAIN c_st : c_st[i] # "none"}

\* C23: fetch_articles_content processes each distinct url once: when it
\* has returned, no url was handed to fetch_content by two coroutines, and
\* the mapping has exactly one entry per distinct url of the list.
C23_EachUrlFetchedOnce ==
    GatherReturned =>
        /\ \A i, j \in Coroutines :
               c_articles[i].url = c_articles[j].url => i = j
        /\ DOMAIN c_map = {c_articles[i].url : i \in Coroutines}

\* The mapping's half of C23 alone: one entry per distinct url.
C23_OneEntryPerUrl ==
    GatherReturned => DOMAIN c_map = {c_articles[i].url : i \in Coroutines}

\* C15: enrichment is additive: the returned list has the same articles in
\* the same order; an article's content is the result's content when a
\* result exists for its url, succeeded and has content, else it is what it
\* was; no other field changes.
C15_EnrichAdditive ==
    c_pc = "enriched" =>
        /\ DOMAIN c_out = DOMAIN c_articles
        /\ \A i \in DOMAIN c_articles :
               /\ DOMAIN c_out[i] = DOMAIN c_articles[i]
               /\ \A f \in DOMAIN c_articles[i] \ {"content"} :
                      c_out[i][f] = c_articles[i][f]
               /\ c_out[i].content =
                      IF /\ HasResult(i)
                         /\ c_map[c_articles[i].url].success
                         /\ c_map[c_articles[i].url].content # ""
                      THEN c_map[c_articles[i].url].content
                      ELSE c_articles[i].content

\* C15's case: one article took a result's content, one has no result, and
\* one that already had content has a failed result.
C15_Witness ==
    /\ c_pc = "enriched"
    /\ \E i \in DOMAIN c_out : c_out[i].content # c_articles[i].content
    /\ \E i \in DOMAIN c_out : ~HasResult(i)
    /\ \E i \in DOMAIN c_out :
           /\ HasResult(i) /\ ~c_map[c_articles[i].url].success
           /\ c_articles[i].content # ""

\* C19: fetch_content never raises: whatever the request does, it returns a
\* ContentResult; a failure has success=False, empty content and a
\* non-empty error ("Timeout", "HTTP <status>", "No content extracted" or the
\* error text); success=True comes with non-empty content only.
C19_FetchContentClassifies ==
    \A i \in DOMAIN c_st :
        c_st[i] = "done" =>
            /\ c_results[i] # NoResult
            /\ c_results[i].url = c_articles[i].url
            /\ c_results[i].success => c_results[i].content # ""
            /\ ~c_results[i].success =>
                   c_results[i].content = "" /\ c_results[i].error # ""

(***************************************************************************)
(* Properties of Article.domain (SpecDomain).                              *)
(***************************************************************************)
\* C18: Article.domain is the url's host with exactly one leading "www."
\* stripped and nothing else removed, and deriving the domain again from
\* what it returned gives the same host.
C18_DomainStripsOneLeadingWww ==
    (u_pc # "start" /\ ~UrlParseRaises(u_url)) =>
        /\ u_domain = StripLeadingWww(HostOf(u_url))
        /\ u_pc = "again" => u_again = u_domain

(***************************************************************************)
(* Properties of the generate command (SpecGenerate).                      *)
(***************************************************************************)
Invoked(stage) == \E k \in DOMAIN g_calls : g_calls[k] = stage

Rendering ==
    {"EPUBGenerator.generate", "LocalDelivery.save", "LocalDelivery.cleanup_old",
     "EmailDelivery.send"}

Ended == g_pc = "exit"

PreviewOff == "preview" \in DOMAIN g_opts /\ ~g_opts.preview

\* The labels under which entry i's adapter returned its articles.
LabelsOf(i) == {returned[i].articles[k].source : k \in DOMAIN returned[i].articles}

\* A label's place in the assembler's priority list; 4 for the others.
Priority(label) ==
    CASE label = "Hacker News" -> 1
      [] label = "Lobsters" -> 2
      [] label = "Dev.to" -> 3
      [] OTHER -> 4

\* Exactly two sources are configured, both enabled and registered, and
\* their adapters returned non-empty lists, each under one label, the two
\* labels distinct.
TwoSourcesTwoLabels ==
    /\ Len(config) = 2
    /\ \A i \in DOMAIN config :
           /\ config[i].enabled /\ Registered(i)
           /\ returned[i].called /\ ~returned[i].raised
           /\ Cardinality(LabelsOf(i)) = 1
    /\ LabelsOf(1) # LabelsOf(2)

\* C16: end to end, with only two sources enabled whose adapters return
\* article lists under two distinct labels: the digest's total_articles is
\* the sum of the two lists' lengths and its section titles are the two
\* labels in priority order (the fixed priority list first, configuration
\* order otherwise).
C16_EndToEndTwoSources ==
    (g_pc \in {"send", "exit"} /\ d_pc = "done" /\ TwoSourcesTwoLabels) =>
        LET l1 == CHOOSE l \in LabelsOf(1) : TRUE
            l2 == CHOOSE l \in LabelsOf(2) : TRUE
        IN  /\ TotalArticles(sections)
                   = Len(returned[1].articles) + Len(returned[2].articles)
            /\ Titles(sections) =
                   IF Priority(l2) < Priority(l1) THEN <<l2, l1>> ELSE <<l1, l2>>

\* C16's case: the second configured source's label has priority over the
\* first's, and the digest has been assembled and rendered.
C16_Witness ==
    /\ g_pc = "send" /\ d_pc = "done" /\ TwoSourcesTwoLabels
    /\ \E l1 \in LabelsOf(1), l2 \in LabelsOf(2) : Priority(l2) < Priority(l1)
    /\ Len(returned[1].articles) + Len(returned[2].articles) >= 3

\* C17 as claimed: when the fetch yields no article, no digest is
\* assembled, nothing is rendered, saved, cleaned up or sent, the condition
\* is reported and the command exits with a non-zero status, whatever the
\* options; when an article was fetched and preview is off, the command
\* goes on to the EPUB generator.
C17_NoArticlesHalts ==
    /\ (g_pc # "fetch" /\ GroupedTotal = 0) =>
           /\ d_pc = "idle" /\ ~Invoked("create_digest_from_articles")
           /\ \A stage \in Rendering : ~Invoked(stage)
           /\ Ended /\ Invoked("print No articles found") /\ g_exit = "1"
    /\ (Ended /\ GroupedTotal > 0 /\ PreviewOff) =>
           /\ d_pc = "done" /\ Invoked("EPUBGenerator.generate")

\* C17 as the code has it: the same with preview off; with --preview the
\* command shows the preview and returns with status 0, articles or not,
\* and nothing is assembled or rendered.
C17_NoArticlesHaltsUnlessPreview ==
    /\ (g_pc # "fetch" /\ GroupedTotal = 0 /\ PreviewOff) =>
           /\ d_pc = "idle" /\ ~Invoked("create_digest_from_articles")
           /\ \A stage \in Rendering : ~Invoked(stage)
           /\ Ended /\ Invoked("print No articles found") /\ g_exit = "1"
    /\ (g_pc # "fetch" /\ ~PreviewOff) =>
           /\ d_pc = "idle" /\ ~Invoked("create_digest_from_articles")
           /\ \A stage \in Rendering : ~Invoked(stage)
           /\ Ended /\ Invoked("_show_preview") /\ g_exit = "0"
    /\ (Ended /\ GroupedTotal > 0 /\ PreviewOff) =>
           /\ d_pc = "done" /\ Invoked("EPUBGenerator.generate")

\* C17's case: two sources are enabled, both came back empty-handed, and
\* the command has ended with status 1.
C17_Witness ==
    /\ Ended /\ PreviewOff /\ GroupedTotal = 0 /\ g_exit = "1"
    /\ Len(config) >= 2
    /\ \A i \in DOMAIN config : config[i].enabled /\ Registered(i)

(***************************************************************************)
(* Properties of the Reddit adapter's URL rule (SpecAdapter).              *)
(***************************************************************************)
\* The url's host is reddit.com or one of its subdomains.
PointsBackToReddit(url) ==
    HostOf(url) = "reddit.com" \/ EndsWith(HostOf(url), ".reddit.com")

\* Every non-stickied post of every listing that arrived gives one article,
\* with the permalink as url when the post is a self post, has no url, or
\* own_permalink_when holds of its url, and with the link otherwise;
\* stickied posts give no article, and the adapter returns nothing but such
\* articles.
RedditArticlesAre(own_permalink_when) ==
    /\ \A i \in DOMAIN a_tasks :
           a_tasks[i].resp.kind = "ok" =>
               LET posts == SelectSeq(a_tasks[i].resp.body, NotStickied)
                   arts == a_tasks[i].result.val
               IN  /\ Len(arts) = Len(posts)
                   /\ \A k \in DOMAIN posts :
                          LET link == Get(posts[k], "url", "")
                              permalink == "https://www.reddit.com"
                                               \o Get(posts[k], "permalink", "")
                              own == \/ Get(posts[k], "is_self", FALSE)
                                     \/ link = ""
                                     \/ own_permalink_when[link]
                          IN  /\ arts[k].comments_url = permalink
                              /\ arts[k].url = IF own THEN permalink ELSE link
                              /\ arts[k].source = "r/" \o a_tasks[i].arg
                              /\ arts[k].tags = <<a_tasks[i].arg>>
    /\ \A x \in Range(a_out.articles) : x \in Range(Candidates)

RedditLinks == {p.url : p \in {q \in RedditPosts : "url" \in DOMAIN q}} \ {""}

\* C24: the Reddit URL rule.  A self post, a post without url and a post
\* whose url points back to reddit get the post's permalink as url and as
\* comments_url; every other post gets its external link as url and the
\* permalink as comments_url; stickied posts are never emitted; every
\* article has source "r/<community>" and tags [community].
C24_RedditUrlRule ==
    (AdapterDone /\ a_name = "reddit") =>
        RedditArticlesAre([u \in RedditLinks |-> PointsBackToReddit(u)])

\* The same with "points back to reddit" read as the url beginning with
\* https://www.reddit.com.
C24_RedditUrlRuleByPrefix ==
    (AdapterDone /\ a_name = "reddit") =>
        RedditArticlesAre([u \in RedditLinks |->
                              StartsWith(u, "https://www.reddit.com")])

(***************************************************************************)
(* Properties of save and cleanup_old (SpecRetention).                     *)
(***************************************************************************)
\* The name is morning-byte-<date>.epub.
DigestNamed(name) == \E d \in 1..9 : name = "morning-byte-" \o DateStr(d) \o ".epub"

\* The day in a digest's name.
DayOf(name) == CHOOSE d \in 1..9 : name = "morning-byte-" \o DateStr(d) \o ".epub"

\* Midnight of the day is earlier than now minus keep_days days.
OlderThanKept(day) ==
    day + r_keep < r_now.day \/ (day + r_keep = r_now.day /\ r_now.tod > 0)

\* C29: retention never removes the digest just produced: for every
\* keep_days >= 0, when cleanup_old has run after save, the file save
\* wrote is still there; the files deleted are named
\* morning-byte-<date>.epub with a date older than now minus keep_days
\* days, and every other file is untouched.
C29_RetentionKeepsNewDigest ==
    r_pc = "done" =>
        /\ r_saved \in r_files
        /\ \A f \in r_deleted : DigestNamed(f) /\ OlderThanKept(DayOf(f))
        /\ r_files = (r_before \cup {r_saved}) \ r_deleted

\* The same for keep_days >= 1 when save and cleanup_old run on the same
\* day, leaving aside how the deleted files are named.
C29_RetentionKeepsNewDigestSameDay ==
    (r_pc = "done" /\ r_keep >= 1 /\ r_saved = DestName(r_now.day)) =>
        /\ r_saved \in r_files
        /\ r_files = (r_before \cup {r_saved}) \ r_deleted

====
